---- MODULE Spec2Model ----
(***************************************************************************)
(* Product Pricing Calculator: the pricing engine (useProductCalculator)   *)
(* and the App state that feeds it.                                        *)
(*                                                                         *)
(* A JavaScript number is modelled as an exact rational n/d (d > 0, lowest *)
(* terms) extended with the three non-finite values of IEEE 754:           *)
(*   NaN = 0/0,  Infinity = 1/0,  -Infinity = -1/0.                        *)
(* null, which JSON writes for a number it cannot represent, is 0/-1: the  *)
(* arithmetic reads it as the number 0, as ToNumber(null) is 0.            *)
(* The arithmetic is exact when `precision' is 0: the significand is wide  *)
(* enough that no result of the run is rounded.  With a positive           *)
(* `precision' the engine rounds every product and sum of its totals to    *)
(* the nearest number with that many significant bits, ties to even, as    *)
(* IEEE 754 does with 53 bits.  Overflow to Infinity, subnormal numbers    *)
(* and the sign of zero are not modelled.                                  *)
(***************************************************************************)
EXTENDS Integers, Sequences, FiniteSets, TLC

VARIABLES
    materials,          \* App state: the catalog
    productInputs,      \* App state: the product configuration
    calculatedPricing,  \* the value useProductCalculator returned to App
    snap,               \* an earlier invocation of the engine, for comparison
    precision,          \* significant bits of a number (0: no rounding)
    localStorage,       \* window.localStorage, by key
    storageFault,       \* "none"; "quota": setItem throws; "denied": every
                        \* access to localStorage throws
    advisor,            \* PricingAdvisor state and its requests in flight
    today               \* the calendar day

vars == <<materials, productInputs, calculatedPricing, snap, precision,
          localStorage, storageFault, advisor, today>>

\* what no handler of App writes
appFrame == <<precision, storageFault, advisor, today>>

----------------------------------------------------------------------------
(* JavaScript numbers *)

Abs(i) == IF i < 0 THEN -i ELSE i

Sgn(i) == IF i < 0 THEN -1 ELSE IF i > 0 THEN 1 ELSE 0

RECURSIVE GCD(_, _)
GCD(a, b) == IF b = 0 THEN a ELSE GCD(b, a % b)

\* the number n/d, d # 0, in lowest terms with a positive denominator
Num(n, d) ==
    LET g == GCD(Abs(n), Abs(d))
    IN  [n |-> (Sgn(d) * n) \div g, d |-> Abs(d) \div g]

Int2Num(i) == [n |-> i, d |-> 1]

NaN == [n |-> 0, d |-> 0]
Infinity == [n |-> 1, d |-> 0]
JSNull == [n |-> 0, d |-> -1]
Zero == Int2Num(0)
One == Int2Num(1)
Hundred == Int2Num(100)

IsNaN(x) == x.d = 0 /\ x.n = 0
IsInfinite(x) == x.d = 0 /\ x.n # 0
IsFinite(x) == x.d # 0

RECURSIVE Pow2(_)
Pow2(k) == IF k = 0 THEN 1 ELSE 2 * Pow2(k - 1)

\* the exponent e with 2^(p-1) <= n/d * 2^(-e) < 2^p, for n/d > 0
RECURSIVE Exponent(_, _, _, _)
Exponent(n, d, p, e) ==
    IF n >= d * Pow2(p) THEN Exponent(n, 2 * d, p, e + 1)
    ELSE IF n < d * Pow2(p - 1) THEN Exponent(2 * n, d, p, e - 1)
    ELSE e

\* the integer nearest to n/d, the even one of two equally near
RoundHalfEven(n, d) ==
    LET q == n \div d
        r == n % d
    IN  IF 2 * r > d \/ (2 * r = d /\ q % 2 = 1) THEN q + 1 ELSE q

\* the finite number x rounded at exponent e: the nearest multiple of 2^e
RoundAt(x, e) ==
    IF e >= 0
    THEN Num(Sgn(x.n) * RoundHalfEven(Abs(x.n), x.d * Pow2(e)) * Pow2(e), 1)
    ELSE Num(Sgn(x.n) * RoundHalfEven(Abs(x.n) * Pow2(-e), x.d), Pow2(-e))

\* the number x rounded to p significant bits
Round(x, p) ==
    IF p = 0 \/ ~IsFinite(x) \/ x.n = 0 THEN x
    ELSE RoundAt(x, Exponent(Abs(x.n), Abs(x.d), p, 0))

\* x + y
Add(x, y) ==
    IF IsNaN(x) \/ IsNaN(y) THEN NaN
    ELSE IF IsInfinite(x) /\ IsInfinite(y) THEN (IF x.n = y.n THEN x ELSE NaN)
    ELSE IF IsInfinite(x) THEN x
    ELSE IF IsInfinite(y) THEN y
    ELSE Num(x.n * y.d + y.n * x.d, x.d * y.d)

\* -x
Neg(x) == [n |-> -x.n, d |-> x.d]

\* x - y
Sub(x, y) == Add(x, Neg(y))

\* x * y
Mul(x, y) ==
    IF IsNaN(x) \/ IsNaN(y) THEN NaN
    ELSE IF IsInfinite(x) \/ IsInfinite(y)
         THEN (IF x.n = 0 \/ y.n = 0 THEN NaN
               ELSE [n |-> Sgn(x.n) * Sgn(y.n), d |-> 0])
    ELSE Num(x.n * y.n, x.d * y.d)

\* x / y (a zero divisor is +0)
Div(x, y) ==
    IF IsNaN(x) \/ IsNaN(y) THEN NaN
    ELSE IF IsInfinite(x) /\ IsInfinite(y) THEN NaN
    ELSE IF IsInfinite(x) THEN [n |-> x.n * (IF y.n < 0 THEN -1 ELSE 1), d |-> 0]
    ELSE IF IsInfinite(y) THEN Zero
    ELSE IF y.n = 0 THEN (IF x.n = 0 THEN NaN ELSE [n |-> Sgn(x.n), d |-> 0])
    ELSE Num(x.n * y.d, x.d * y.n)

\* x < y
Lt(x, y) ==
    IF IsNaN(x) \/ IsNaN(y) THEN FALSE
    ELSE IF x = y THEN FALSE
    ELSE IF IsInfinite(x) THEN x.n < 0
    ELSE IF IsInfinite(y) THEN y.n > 0
    ELSE x.n * Abs(y.d) < y.n * Abs(x.d)

\* x > y
Gt(x, y) == Lt(y, x)

\* ToBoolean(x): 0, NaN and null are falsy
Truthy(x) == ~IsNaN(x) /\ x # Zero /\ x # JSNull

\* x || y
OrElse(x, y) == IF Truthy(x) THEN x ELSE y

----------------------------------------------------------------------------
(* types.ts *)

\* materialId: string | null
NULL == "null"

\* Material: id, name, totalCost, qty, unitPrice (sku, supplier and
\* unitOfMeasurement are free-text labels no computation reads)
Material(id, name, totalCost, qty, unitPrice) ==
    [id |-> id, name |-> name, totalCost |-> totalCost, qty |-> qty,
     unitPrice |-> unitPrice]

\* ProductMaterialRow: materialId, qty (the row's own uuid is a render key)
ProductMaterialRow(materialId, qty) == [materialId |-> materialId, qty |-> qty]

\* LaborCostRow: hours (taskName is a label)
LaborCostRow(hours) == [hours |-> hours]

\* OtherFeeRow: qty, unitPrice (feeName and unit are labels)
OtherFeeRow(qty, unitPrice) == [qty |-> qty, unitPrice |-> unitPrice]

----------------------------------------------------------------------------
(* hooks/useProductCalculator.ts *)

\* materials.find(m => m.id === id): index of the first match, 0 if none
find(ms, id) ==
    LET hits == {i \in 1..Len(ms) : ms[i].id = id}
    IN  IF hits = {} THEN 0 ELSE CHOOSE i \in hits : \A j \in hits : i <= j

\* materials.find(m => m.id === id)?.unitPrice || 0
getMaterialPrice(ms, id) ==
    LET i == find(ms, id)
    IN  IF i = 0 THEN Zero ELSE OrElse(ms[i].unitPrice, Zero)

\* rows.reduce((sum, row) => sum + cost(row), sum0), costs[i] = cost(rows[i])
RECURSIVE reduce(_, _)
reduce(costs, sum) ==
    IF costs = <<>> THEN sum
    ELSE reduce(Tail(costs), Add(sum, Head(costs)))

\* getMaterialPrice(row.materialId) * row.qty
materialRowCost(ms, row) == Mul(getMaterialPrice(ms, row.materialId), row.qty)

\* as laborRowCost, but leaving out the hourly rate
laborRowCost_hours(pi, row) == row.hours

\* row.hours * productInputs.hourlyLaborRate
laborRowCost(pi, row) == Mul(row.hours, pi.hourlyLaborRate)

\* row.qty * row.unitPrice
otherFeeRowCost(row) == Mul(row.qty, row.unitPrice)

totalMaterialCostOf(pi, ms) ==
    reduce([i \in 1..Len(pi.materialCostRows) |->
                materialRowCost(ms, pi.materialCostRows[i])], Zero)

\* as totalPackagingCostOf, but summing the material rows
totalPackagingCostOf_materialRows(pi, ms) ==
    reduce([i \in 1..Len(pi.materialCostRows) |->
                materialRowCost(ms, pi.materialCostRows[i])], Zero)

totalPackagingCostOf(pi, ms) ==
    reduce([i \in 1..Len(pi.packagingCostRows) |->
                materialRowCost(ms, pi.packagingCostRows[i])], Zero)

totalLaborCostOf(pi) ==
    reduce([i \in 1..Len(pi.laborCostRows) |->
                laborRowCost(pi, pi.laborCostRows[i])], Zero)

totalOtherFeesCostOf(pi) ==
    reduce([i \in 1..Len(pi.otherFeeRows) |->
                otherFeeRowCost(pi.otherFeeRows[i])], Zero)

\* as totalBaseCostOf, but without the other fees
totalBaseCostOf_noOtherFees(m, p, l, o) == Add(Add(m, p), l)

totalBaseCostOf(m, p, l, o) == Add(Add(Add(m, p), l), o)

\* as marginFinalPrice, but the margin taken as a markup over the cost
marginFinalPrice_markup(pi, totalBaseCost) ==
    LET marginDecimal == Div(pi.targetMargin, Hundred)
    IN  IF Lt(marginDecimal, One)
        THEN Mul(totalBaseCost, Add(One, marginDecimal))
        ELSE totalBaseCost

\* as marginFinalPrice, but without the guard on the margin
marginFinalPrice_unguarded(pi, totalBaseCost) ==
    LET marginDecimal == Div(pi.targetMargin, Hundred)
    IN  Div(totalBaseCost, Sub(One, marginDecimal))

\* margin mode: finalPrice
marginFinalPrice(pi, totalBaseCost) ==
    LET marginDecimal == Div(pi.targetMargin, Hundred)
    IN  IF Lt(marginDecimal, One)
        THEN Div(totalBaseCost, Sub(One, marginDecimal))
        ELSE totalBaseCost

\* as priceRequiredMargin, but relative to the cost
priceRequiredMargin_overCost(finalPrice, totalBaseCost) ==
    IF Gt(finalPrice, Zero)
    THEN Mul(Div(Sub(finalPrice, totalBaseCost), totalBaseCost), Hundred)
    ELSE Zero

\* as priceRequiredMargin, but without the guard on the price
priceRequiredMargin_unguarded(finalPrice, totalBaseCost) ==
    Mul(Div(Sub(finalPrice, totalBaseCost), finalPrice), Hundred)

\* price mode: requiredMargin
priceRequiredMargin(finalPrice, totalBaseCost) ==
    IF Gt(finalPrice, Zero)
    THEN Mul(Div(Sub(finalPrice, totalBaseCost), finalPrice), Hundred)
    ELSE Zero

finalPriceOf(pi, totalBaseCost) ==
    IF pi.calculationMode = "margin"
    THEN marginFinalPrice(pi, totalBaseCost)
    ELSE pi.targetPrice

\* as requiredMarginOf, but computing the margin from the price in both modes
requiredMarginOf_computed(pi, finalPrice, totalBaseCost) ==
    priceRequiredMargin(finalPrice, totalBaseCost)

requiredMarginOf(pi, finalPrice, totalBaseCost) ==
    IF pi.calculationMode = "margin"
    THEN pi.targetMargin
    ELSE priceRequiredMargin(finalPrice, totalBaseCost)

\* as discountedPriceOf, but with the discount clamped to 100
discountedPriceOf_clamped(pi, finalPrice) ==
    LET discountDecimal == Div(pi.discount, Hundred)
    IN  Mul(finalPrice,
            Sub(One, IF Gt(discountDecimal, One) THEN One ELSE discountDecimal))

discountedPriceOf(pi, finalPrice) ==
    LET discountDecimal == Div(pi.discount, Hundred)
    IN  Mul(finalPrice, Sub(One, discountDecimal))

\* as profitOf, but never below 0
profitOf_clamped(discountedPrice, totalBaseCost) ==
    LET p == Sub(discountedPrice, totalBaseCost)
    IN  IF Lt(p, Zero) THEN Zero ELSE p

profitOf(discountedPrice, totalBaseCost) == Sub(discountedPrice, totalBaseCost)

RowTypes ==
    {"materialCostRows", "packagingCostRows", "laborCostRows", "otherFeeRows"}

\* the exception of reading .reduce of a row list that is undefined
TypeError == [threw |-> "TypeError"]

\* the callback of useMemo: the whole computation; it throws when
\* productInputs lacks one of the four row lists
computePricing(pi, ms) ==
  IF ~(RowTypes \subseteq DOMAIN pi) THEN TypeError ELSE
    LET totalMaterialCost == totalMaterialCostOf(pi, ms)
        totalPackagingCost == totalPackagingCostOf(pi, ms)
        totalLaborCost == totalLaborCostOf(pi)
        totalOtherFeesCost == totalOtherFeesCostOf(pi)
        totalBaseCost == totalBaseCostOf(totalMaterialCost, totalPackagingCost,
                                         totalLaborCost, totalOtherFeesCost)
        finalPrice == finalPriceOf(pi, totalBaseCost)
        requiredMargin == requiredMarginOf(pi, finalPrice, totalBaseCost)
        discountedPrice == discountedPriceOf(pi, finalPrice)
        profit == profitOf(discountedPrice, totalBaseCost)
    IN  [totalMaterialCost |-> totalMaterialCost,
         totalPackagingCost |-> totalPackagingCost,
         totalLaborCost |-> totalLaborCost,
         totalOtherFeesCost |-> totalOtherFeesCost,
         totalBaseCost |-> totalBaseCost,
         finalPrice |-> finalPrice,
         requiredMargin |-> requiredMargin,
         discountedPrice |-> discountedPrice,
         profit |-> profit]

\* as reduceRounded, but keeping the last cost only
reduceRounded_last(costs, sum, p) ==
    IF costs = <<>> THEN sum ELSE costs[Len(costs)]

\* rows.reduce((sum, row) => sum + cost(row), sum0) when a number has p
\* significant bits: every sum is rounded as it is formed, left to right
RECURSIVE reduceRounded(_, _, _)
reduceRounded(costs, sum, p) ==
    IF costs = <<>> THEN sum
    ELSE reduceRounded(Tail(costs), Round(Add(sum, Head(costs)), p), p)

\* the callback of useMemo when a number has p significant bits: the row
\* costs, the four totals and the base cost are rounded as they are formed
computePricingRounded(pi, ms, p) ==
  IF ~(RowTypes \subseteq DOMAIN pi) THEN TypeError ELSE
    LET totalMaterialCost ==
            reduceRounded([i \in 1..Len(pi.materialCostRows) |->
                Round(materialRowCost(ms, pi.materialCostRows[i]), p)], Zero, p)
        totalPackagingCost ==
            reduceRounded([i \in 1..Len(pi.packagingCostRows) |->
                Round(materialRowCost(ms, pi.packagingCostRows[i]), p)], Zero, p)
        totalLaborCost ==
            reduceRounded([i \in 1..Len(pi.laborCostRows) |->
                Round(laborRowCost(pi, pi.laborCostRows[i]), p)], Zero, p)
        totalOtherFeesCost ==
            reduceRounded([i \in 1..Len(pi.otherFeeRows) |->
                Round(otherFeeRowCost(pi.otherFeeRows[i]), p)], Zero, p)
        totalBaseCost ==
            Round(Add(Round(Add(Round(Add(totalMaterialCost, totalPackagingCost), p),
                                totalLaborCost), p),
                      totalOtherFeesCost), p)
        finalPrice == finalPriceOf(pi, totalBaseCost)
        requiredMargin == requiredMarginOf(pi, finalPrice, totalBaseCost)
        discountedPrice == discountedPriceOf(pi, finalPrice)
        profit == profitOf(discountedPrice, totalBaseCost)
    IN  [totalMaterialCost |-> totalMaterialCost,
         totalPackagingCost |-> totalPackagingCost,
         totalLaborCost |-> totalLaborCost,
         totalOtherFeesCost |-> totalOtherFeesCost,
         totalBaseCost |-> totalBaseCost,
         finalPrice |-> finalPrice,
         requiredMargin |-> requiredMargin,
         discountedPrice |-> discountedPrice,
         profit |-> profit]

\* the callback of useMemo under the arithmetic of the run
calculate(pi, ms) ==
    IF precision = 0 THEN computePricing(pi, ms)
    ELSE computePricingRounded(pi, ms, precision)

----------------------------------------------------------------------------
(* App.tsx: default data *)

defaultMaterials ==
    << Material("1", "Cotton Fabric", Int2Num(1500), Int2Num(10), Int2Num(150)),
       Material("2", "Printing Ink", Int2Num(500), Int2Num(20), Int2Num(25)),
       Material("3", "Brand Tag", Int2Num(250), Int2Num(50), Int2Num(5)),
       Material("4", "Small Box", Int2Num(100), Int2Num(20), Int2Num(5)),
       Material("5", "Packing Tape", Int2Num(80), Int2Num(2), Int2Num(40)) >>

defaultProductInputs ==
    [productName |-> "Custom T-Shirt",
     hourlyLaborRate |-> Int2Num(40),
     materialCostRows |-> << ProductMaterialRow("1", Num(1, 2)),
                             ProductMaterialRow("2", Int2Num(2)) >>,
     packagingCostRows |-> << ProductMaterialRow("4", Int2Num(1)) >>,
     laborCostRows |-> << LaborCostRow(Num(1, 2)), LaborCostRow(Num(1, 4)) >>,
     otherFeeRows |-> << OtherFeeRow(Int2Num(1), Int2Num(15)) >>,
     calculationMode |-> "margin",
     targetMargin |-> Int2Num(60),
     targetPrice |-> Int2Num(1000),
     discount |-> Int2Num(10)]

----------------------------------------------------------------------------
(* Bounds of the explored configurations *)

\* rows of one product configuration, over its four lists together
MaxRows == 2

\* entries of a stored catalog
MaxMaterials == 2

TotalRows(pi) ==
    Len(pi.materialCostRows) + Len(pi.packagingCostRows)
      + Len(pi.laborCostRows) + Len(pi.otherFeeRows)

\* sequences over S of length at most n
RECURSIVE SeqUpTo(_, _)
SeqUpTo(S, n) ==
    IF n = 0 THEN {<<>>}
    ELSE LET shorter == SeqUpTo(S, n - 1)
         IN  shorter \cup {Append(s, x) : s \in {t \in shorter : Len(t) = n - 1}, x \in S}

\* values a stored or edited field is drawn from
QtyValues == {Num(1, 2), Infinity}
HoursValues == {Num(1, 4), Num(1, 2)}
FeeQtyValues == {Int2Num(1), Int2Num(2)}
FeePriceValues == {Int2Num(15)}
RateValues == {Zero, Int2Num(40)}
MarginValues == {Int2Num(-50), Zero, Int2Num(50), Int2Num(60), Hundred,
                 Int2Num(150)}
PriceValues == {Int2Num(-80), Zero, Int2Num(50), Int2Num(1000), Infinity}
DiscountValues == {Zero, Int2Num(10), Int2Num(150)}
Modes == {"margin", "price"}
RowMaterialIds == {NULL, "1", "2"}

\* catalog entries a stored catalog is drawn from: two default entries, and
\* an entry for id "1" whose unitPrice is not a number (a field lost in storage)
StoredMaterials ==
    { defaultMaterials[1], defaultMaterials[2],
      Material("1", "Cotton Fabric", Int2Num(1500), Int2Num(10), NaN) }

MaterialRows == {ProductMaterialRow(id, q) : id \in RowMaterialIds, q \in QtyValues}
LaborRows == {LaborCostRow(h) : h \in HoursValues}
OtherFeeRows == {OtherFeeRow(q, p) : q \in FeeQtyValues, p \in FeePriceValues}

NumberFields == {"hourlyLaborRate", "targetMargin", "targetPrice", "discount"}

\* the scalar fields that do not hold their default value
EditedFields(pi) ==
    {f \in NumberFields \cup {"productName"} : pi[f] # defaultProductInputs[f]}

\* the configurations explored: any rows up to MaxRows and any catalog up to
\* MaxMaterials under the default scalar fields; up to two edited scalar
\* fields over at most one stored row and at most one catalog entry
InScope(pi, ms) ==
    /\ TotalRows(pi) <= MaxRows
    /\ Len(ms) <= MaxMaterials
    /\ \/ EditedFields(pi) = {}
       \/ /\ Cardinality(EditedFields(pi)) <= 2
          /\ TotalRows(pi) <= 1
          /\ Len(ms) <= 1
          /\ \A i \in 1..Len(pi.materialCostRows) : pi.materialCostRows[i] \in MaterialRows
          /\ \A i \in 1..Len(pi.packagingCostRows) : pi.packagingCostRows[i] \in MaterialRows
          /\ \A i \in 1..Len(pi.laborCostRows) : pi.laborCostRows[i] \in LaborRows
          /\ \A i \in 1..Len(pi.otherFeeRows) : pi.otherFeeRows[i] \in OtherFeeRows

\* the configurations on which the tables are edited: one table in use,
\* default scalar fields, at most one catalog entry
RowScope(pi, ms) ==
    /\ TotalRows(pi) <= MaxRows
    /\ Len(ms) <= 1
    /\ EditedFields(pi) = {}
    /\ Cardinality({rowType \in {"materialCostRows", "packagingCostRows",
                                  "laborCostRows", "otherFeeRows"} :
                        pi[rowType] # <<>>}) <= 1

StoredCatalogs == SeqUpTo(StoredMaterials, MaxMaterials)

RowLists(m, p, l, o) ==
    [materialCostRows |-> m, packagingCostRows |-> p,
     laborCostRows |-> l, otherFeeRows |-> o]

\* the four row lists with at most n rows together
RECURSIVE RowConfigs(_)
RowConfigs(n) ==
    IF n = 0 THEN {RowLists(<<>>, <<>>, <<>>, <<>>)}
    ELSE LET shorter == RowConfigs(n - 1)
             full == {c \in shorter :
                        Len(c.materialCostRows) + Len(c.packagingCostRows)
                          + Len(c.laborCostRows) + Len(c.otherFeeRows) = n - 1}
         IN  shorter
               \cup {[c EXCEPT !.materialCostRows = Append(@, r)] :
                        c \in full, r \in MaterialRows}
               \cup {[c EXCEPT !.packagingCostRows = Append(@, r)] :
                        c \in full, r \in MaterialRows}
               \cup {[c EXCEPT !.laborCostRows = Append(@, r)] :
                        c \in full, r \in LaborRows}
               \cup {[c EXCEPT !.otherFeeRows = Append(@, r)] :
                        c \in full, r \in OtherFeeRows}

ProductInputs(rows, rate, mode, margin, price, discount) ==
    [productName |-> defaultProductInputs.productName,
     hourlyLaborRate |-> rate,
     materialCostRows |-> rows.materialCostRows,
     packagingCostRows |-> rows.packagingCostRows,
     laborCostRows |-> rows.laborCostRows,
     otherFeeRows |-> rows.otherFeeRows,
     calculationMode |-> mode,
     targetMargin |-> margin,
     targetPrice |-> price,
     discount |-> discount]

Scalars ==
    [hourlyLaborRate : RateValues, targetMargin : MarginValues,
     targetPrice : PriceValues, discount : DiscountValues]

StoredProductInputs(n) ==
    {ProductInputs(rows, sc.hourlyLaborRate, mode, sc.targetMargin,
                   sc.targetPrice, sc.discount) :
        rows \in RowConfigs(n), sc \in Scalars, mode \in Modes}

\* the stored states in scope, as pairs <<catalog, configuration>>
StoredStates ==
    {st \in StoredCatalogs \X StoredProductInputs(1) : InScope(st[2], st[1])}
    \cup
    (StoredCatalogs \X
       {ProductInputs(rows, defaultProductInputs.hourlyLaborRate, mode,
                      defaultProductInputs.targetMargin,
                      defaultProductInputs.targetPrice,
                      defaultProductInputs.discount) :
           rows \in RowConfigs(MaxRows), mode \in Modes})

----------------------------------------------------------------------------
(* App.tsx: state and handlers; every state change re-renders App, which
   calls useProductCalculator with the new state *)

\* an earlier invocation of the engine kept for comparison: its two inputs,
\* its result, and whether the engine has since been invoked with other inputs
NoSnap ==
    [taken |-> FALSE, productInputs |-> <<>>, materials |-> <<>>,
     calculatedPricing |-> <<>>, between |-> FALSE]

\* the comparison record after an invocation with inputs pi, ms
Observe(s, pi, ms) ==
    IF s.taken /\ (pi # s.productInputs \/ ms # s.materials)
    THEN [s EXCEPT !.between = TRUE]
    ELSE s

\* as useMemo, but with an empty dependency list
useMemo_noDeps(depsChanged, cached, fresh) == cached

\* useMemo(factory, deps): the cached value unless a dependency changed
useMemo(depsChanged, cached, fresh) == IF depsChanged THEN fresh ELSE cached

\* as useProductCalculator, but with materials as the only dependency
useProductCalculator_materialsOnly(pi, ms, inputsChanged, materialsChanged, cached) ==
    useMemo(materialsChanged, cached, calculate(pi, ms))

\* useProductCalculator(productInputs, materials) on a re-render; the
\* dependencies are the two state objects, compared by reference
useProductCalculator(pi, ms, inputsChanged, materialsChanged, cached) ==
    useMemo(inputsChanged \/ materialsChanged, cached, calculate(pi, ms))

----------------------------------------------------------------------------
(* window.localStorage and JSON *)

\* what localStorage holds under a key: nothing (getItem returns null), a
\* text that is not JSON, or the text of a JSON value, kept as that value
NoItem == [kind |-> "absent", value |-> <<>>]
NotJSON == [kind |-> "invalid", value |-> <<>>]
Item(v) == [kind |-> "json", value |-> v]

\* JSON.stringify of a number: NaN and the infinities are written as null.
\* (The NaN of a stored state stands for a property the stored object lacks:
\* it is not written and is read back as lacking.)
JSONNumber(x) == IF IsInfinite(x) THEN JSNull ELSE x

\* JSON.stringify(materials), JSON.stringify(productInputs)
JSON_stringify(key, v) ==
    IF key = "materials"
    THEN Item([i \in 1..Len(v) |->
                  [v[i] EXCEPT !.totalCost = JSONNumber(@),
                               !.qty = JSONNumber(@),
                               !.unitPrice = JSONNumber(@)]])
    ELSE Item([v EXCEPT
                 !.hourlyLaborRate = JSONNumber(@),
                 !.targetMargin = JSONNumber(@),
                 !.targetPrice = JSONNumber(@),
                 !.discount = JSONNumber(@),
                 !.materialCostRows =
                     [i \in 1..Len(@) |-> [@[i] EXCEPT !.qty = JSONNumber(@)]],
                 !.packagingCostRows =
                     [i \in 1..Len(@) |-> [@[i] EXCEPT !.qty = JSONNumber(@)]],
                 !.laborCostRows =
                     [i \in 1..Len(@) |-> [@[i] EXCEPT !.hours = JSONNumber(@)]],
                 !.otherFeeRows =
                     [i \in 1..Len(@) |->
                         [@[i] EXCEPT !.qty = JSONNumber(@),
                                      !.unitPrice = JSONNumber(@)]]])

\* JSON.parse of the text of a JSON value
JSON_parse(item) == item.value

\* as initialState, but with an empty list where there is nothing to read
initialState_empty(item, getItemThrows, default) ==
    IF getItemThrows \/ item.kind # "json" THEN <<>> ELSE JSON_parse(item)

\* the initialiser of useState: try { saved = getItem(key);
\* return saved ? JSON.parse(saved) : default } catch { return default }
initialState(item, getItemThrows, default) ==
    IF getItemThrows THEN default
    ELSE IF item.kind = "absent" THEN default
    ELSE IF item.kind = "invalid" THEN default
    ELSE JSON_parse(item)

\* try { localStorage.setItem(key, text) } catch { console.error }
setItem(store, key, text) ==
    IF storageFault # "none" THEN store ELSE [store EXCEPT ![key] = text]

\* the two saving effects, each run when its dependency has changed
useEffect_save(store, pi, ms, inputsChanged, materialsChanged) ==
    LET afterMaterials ==
            IF materialsChanged
            THEN setItem(store, "materials", JSON_stringify("materials", ms))
            ELSE store
    IN  IF inputsChanged
        THEN setItem(afterMaterials, "productInputs",
                     JSON_stringify("productInputs", pi))
        ELSE afterMaterials

----------------------------------------------------------------------------
(* PricingAdvisor: state and mount effect *)

DAILY_LIMIT == 5
COOLDOWN_SECONDS == 30

\* the component's state at its first render, before its effects have run;
\* requests holds the calls of getPricingAdvice that have not settled,
\* intervals counts the timers of setInterval that have not been cleared
PricingAdvisor ==
    [isLoading |-> FALSE, advice |-> "", error |-> "",
     remainingRequests |-> DAILY_LIMIT, cooldown |-> 0, requests |-> <<>>,
     intervals |-> 0, ready |-> FALSE]

\* parseInt(localStorage.getItem(REQUEST_COUNT) || String(DAILY_LIMIT), 10)
savedCount(store) ==
    IF store.requestCount.kind = "json" THEN store.requestCount.value
    ELSE DAILY_LIMIT

\* as quotaRemaining, but without reading the saved count
quotaRemaining_limit(store) == DAILY_LIMIT

\* the mount effect: the daily limit unless the last request was made today
quotaRemaining(store) ==
    IF storageFault = "denied" THEN DAILY_LIMIT
    ELSE IF store.lastRequestDate # Item(today) THEN DAILY_LIMIT
    ELSE savedCount(store)

\* the mount effect: what it leaves in localStorage
quotaStorage(store) ==
    IF storageFault # "denied" /\ store.lastRequestDate # Item(today)
    THEN setItem(store, "requestCount", Item(DAILY_LIMIT))
    ELSE store

----------------------------------------------------------------------------
(* App: first render *)

\* the tree is mounted and its mount effects have run; after a render that
\* threw, React has unmounted the tree and no handler is left
Mounted == calculatedPricing # TypeError /\ advisor.ready

\* localStorage as a browser that holds a catalog and a configuration hands
\* it to the application
StoreOf(ms, pi) ==
    [materials |-> Item(ms), productInputs |-> Item(pi),
     requestCount |-> NoItem, lastRequestDate |-> NoItem]

EmptyStore ==
    [materials |-> NoItem, productInputs |-> NoItem,
     requestCount |-> NoItem, lastRequestDate |-> NoItem]

\* localStorage after the first commit: the two saving effects and the mount
\* effect of PricingAdvisor; a render that threw commits nothing
MountedStorage(store, pi, ms) ==
    IF calculate(pi, ms) = TypeError THEN store
    ELSE quotaStorage(useEffect_save(store, pi, ms, TRUE, TRUE))

\* the advisor after the first commit
MountedAdvisor(store, pi, ms) ==
    IF calculate(pi, ms) = TypeError THEN PricingAdvisor
    ELSE [PricingAdvisor EXCEPT
            !.remainingRequests = quotaRemaining(store), !.ready = TRUE]

\* the application started over a localStorage: the useState initialisers
\* read the stored value if there is one, else the default; the first render
\* computes the pricing; the first commit runs the effects
Started(store) ==
    /\ materials =
          initialState(store.materials, storageFault = "denied", defaultMaterials)
    /\ productInputs =
          initialState(store.productInputs, storageFault = "denied",
                       defaultProductInputs)
    /\ calculatedPricing = calculate(productInputs, materials)
    /\ snap = NoSnap
    /\ localStorage = MountedStorage(store, productInputs, materials)
    /\ advisor = MountedAdvisor(store, productInputs, materials)

Init ==
    /\ precision = 0
    /\ storageFault = "none"
    /\ today = 0
    /\ \E store \in {StoreOf(st[1], st[2]) : st \in StoredStates} \cup {EmptyStore} :
          Started(store)

\* the page is loaded again: a new App over the localStorage of the moment;
\* the effects of PricingAdvisor are still to run
Restart ==
    /\ materials' =
          initialState(localStorage.materials, storageFault = "denied",
                       defaultMaterials)
    /\ productInputs' =
          initialState(localStorage.productInputs, storageFault = "denied",
                       defaultProductInputs)
    /\ calculatedPricing' = calculate(productInputs', materials')
    /\ snap' = NoSnap
    /\ localStorage' =
          IF calculatedPricing' = TypeError THEN localStorage
          ELSE useEffect_save(localStorage, productInputs', materials', TRUE, TRUE)
    /\ advisor' = PricingAdvisor
    /\ UNCHANGED <<precision, storageFault, today>>

\* useEffect(() => { ... }, []) of PricingAdvisor
useEffect_quota ==
    /\ calculatedPricing # TypeError
    /\ ~advisor.ready
    /\ advisor' = [advisor EXCEPT
                     !.remainingRequests = quotaRemaining(localStorage),
                     !.ready = TRUE]
    /\ localStorage' = quotaStorage(localStorage)
    /\ UNCHANGED <<materials, productInputs, calculatedPricing, snap,
                   precision, storageFault, today>>

NumberValues(name) ==
    CASE name = "hourlyLaborRate" -> RateValues
      [] name = "targetMargin" -> MarginValues
      [] name = "targetPrice" -> PriceValues
      [] name = "discount" -> DiscountValues

\* as toLowerCase, but leaving the string as it is
toLowerCase_asIs(str) == str

\* String.prototype.toLowerCase on the names in use
toLowerCase(str) ==
    CASE str = "Cotton Fabric" -> "cotton fabric"
      [] str = "Printing Ink" -> "printing ink"
      [] str = "Brand Tag" -> "brand tag"
      [] str = "Canvas" -> "canvas"
      [] OTHER -> str

\* NewMaterialData submitted by the form
NewMaterialData ==
    { [name |-> "Brand Tag", totalCost |-> Int2Num(250), qty |-> Int2Num(50)],
      [name |-> "cotton fabric", totalCost |-> Int2Num(1500), qty |-> Int2Num(10)] }

MaterialIds == {"1", "2", "3", "4", "5", "6", "7"}

\* ids in use in the catalog or in a reference row
UsedIds(ms, pi) ==
    {ms[i].id : i \in 1..Len(ms)}
      \cup {pi.materialCostRows[i].materialId : i \in 1..Len(pi.materialCostRows)}
      \cup {pi.packagingCostRows[i].materialId : i \in 1..Len(pi.packagingCostRows)}

\* uuidv4(): an id that is not in use
uuidv4(ms, pi) == CHOOSE id \in MaterialIds : id \notin UsedIds(ms, pi)

\* as unitPriceOf, but without the division
unitPriceOf_total(totalCost, qty) == IF Gt(qty, Zero) THEN totalCost ELSE Zero

\* data.qty > 0 ? data.totalCost / data.qty : 0
unitPriceOf(totalCost, qty) == IF Gt(qty, Zero) THEN Div(totalCost, qty) ELSE Zero

\* materials.some(m => m.name.toLowerCase() === data.name.toLowerCase())
IsDuplicate(ms, name) ==
    \E i \in 1..Len(ms) : toLowerCase(ms[i].name) = toLowerCase(name)

onAddMaterial(data) ==
    /\ Mounted
    /\ MaterialIds \ UsedIds(materials, productInputs) # {}
    /\ IF IsDuplicate(materials, data.name)
       THEN UNCHANGED <<materials, calculatedPricing, snap, localStorage>>
       ELSE LET newMaterial ==
                    Material(uuidv4(materials, productInputs), data.name,
                             data.totalCost, data.qty,
                             unitPriceOf(data.totalCost, data.qty))
            IN  /\ materials' = Append(materials, newMaterial)
                /\ calculatedPricing' =
                      useProductCalculator(productInputs, materials', FALSE, TRUE,
                                           calculatedPricing)
                /\ snap' = Observe(snap, productInputs, materials')
                /\ localStorage' =
                      useEffect_save(localStorage, productInputs, materials',
                                     FALSE, TRUE)
    /\ UNCHANGED productInputs
    /\ UNCHANGED appFrame

\* as onDeleteMaterial, but leaving the rows of the product as they are
onDeleteMaterial_catalogOnly(id) ==
    /\ Mounted
    /\ materials' = SelectSeq(materials, LAMBDA m : m.id # id)
    /\ calculatedPricing' =
          useProductCalculator(productInputs, materials', FALSE, TRUE,
                               calculatedPricing)
    /\ snap' = Observe(snap, productInputs, materials')
    /\ localStorage' =
          useEffect_save(localStorage, productInputs, materials', FALSE, TRUE)
    /\ UNCHANGED productInputs
    /\ UNCHANGED appFrame

onDeleteMaterial(id) ==
    /\ Mounted
    /\ materials' = SelectSeq(materials, LAMBDA m : m.id # id)
    /\ productInputs' =
          [productInputs EXCEPT
             !.materialCostRows = SelectSeq(@, LAMBDA row : row.materialId # id),
             !.packagingCostRows = SelectSeq(@, LAMBDA row : row.materialId # id)]
    /\ calculatedPricing' =
          useProductCalculator(productInputs', materials', TRUE, TRUE,
                               calculatedPricing)
    /\ snap' = Observe(snap, productInputs', materials')
    /\ localStorage' =
          useEffect_save(localStorage, productInputs', materials', TRUE, TRUE)
    /\ UNCHANGED appFrame

onProductTextChange(name, value) ==
    /\ Mounted
    /\ productInputs' = [productInputs EXCEPT ![name] = value]
    /\ calculatedPricing' =
          useProductCalculator(productInputs', materials, TRUE, FALSE,
                               calculatedPricing)
    /\ snap' = Observe(snap, productInputs', materials)
    /\ localStorage' =
          useEffect_save(localStorage, productInputs', materials, TRUE, FALSE)
    /\ UNCHANGED materials
    /\ UNCHANGED appFrame

onProductNumberChange(name, value) ==
    /\ Mounted
    /\ productInputs' = [productInputs EXCEPT ![name] = value]
    /\ calculatedPricing' =
          useProductCalculator(productInputs', materials, TRUE, FALSE,
                               calculatedPricing)
    /\ snap' = Observe(snap, productInputs', materials)
    /\ localStorage' =
          useEffect_save(localStorage, productInputs', materials, TRUE, FALSE)
    /\ UNCHANGED materials
    /\ UNCHANGED appFrame

onProductModeChange(value) ==
    /\ Mounted
    /\ productInputs' = [productInputs EXCEPT !.calculationMode = value]
    /\ calculatedPricing' =
          useProductCalculator(productInputs', materials, TRUE, FALSE,
                               calculatedPricing)
    /\ snap' = Observe(snap, productInputs', materials)
    /\ localStorage' =
          useEffect_save(localStorage, productInputs', materials, TRUE, FALSE)
    /\ UNCHANGED materials
    /\ UNCHANGED appFrame

onProductRowsChange(rowType, value) ==
    /\ Mounted
    /\ productInputs' = [productInputs EXCEPT ![rowType] = value]
    /\ calculatedPricing' =
          useProductCalculator(productInputs', materials, TRUE, FALSE,
                               calculatedPricing)
    /\ snap' = Observe(snap, productInputs', materials)
    /\ localStorage' =
          useEffect_save(localStorage, productInputs', materials, TRUE, FALSE)
    /\ UNCHANGED materials
    /\ UNCHANGED appFrame

----------------------------------------------------------------------------
(* ProductPricing: the row handlers of the four cost tables *)

\* { ...row, ...updatedValue }
spread(row, updatedValue) ==
    [f \in DOMAIN row \cup DOMAIN updatedValue |->
        IF f \in DOMAIN updatedValue THEN updatedValue[f] ELSE row[f]]

\* the row a table is given by addRow
newRow(rowType) ==
    CASE rowType \in {"materialCostRows", "packagingCostRows"} ->
             ProductMaterialRow(NULL, One)
      [] rowType = "laborCostRows" -> LaborCostRow(One)
      [] rowType = "otherFeeRows" -> OtherFeeRow(One, Zero)

\* currentRows.filter((_, index) => index !== rowIndex)
filterIndex(currentRows, rowIndex) ==
    [i \in 1..(Len(currentRows) - 1) |->
        IF i < rowIndex THEN currentRows[i] ELSE currentRows[i + 1]]

\* the three handlers as useCallback creates them in a render: product is
\* the configuration of that render, held by the closure
addRowOf(product, rowType) ==
    LET currentRows == product[rowType]
    IN  onProductRowsChange(rowType, Append(currentRows, newRow(rowType)))

updateRowOf(product, rowType, rowIndex, updatedValue) ==
    LET currentRows == product[rowType]
        newRows == [currentRows EXCEPT
                      ![rowIndex] = spread(currentRows[rowIndex], updatedValue)]
    IN  onProductRowsChange(rowType, newRows)

removeRowOf(product, rowType, rowIndex) ==
    LET currentRows == product[rowType]
    IN  onProductRowsChange(rowType, filterIndex(currentRows, rowIndex))

\* the handlers of the render on the screen, called by an event of the page
addRow(rowType) == addRowOf(productInputs, rowType)

updateRow(rowType, rowIndex, updatedValue) ==
    updateRowOf(productInputs, rowType, rowIndex, updatedValue)

removeRow(rowType, rowIndex) == removeRowOf(productInputs, rowType, rowIndex)

\* the values an edited cell of a table hands to updateRow
RowPatches(rowType) ==
    CASE rowType \in {"materialCostRows", "packagingCostRows"} ->
             {[materialId |-> id] :
                 id \in {""} \cup {materials[i].id : i \in 1..Len(materials)}}
               \cup {[qty |-> Num(1, 2)]}
      [] rowType = "laborCostRows" -> {[hours |-> h] : h \in HoursValues}
      [] rowType = "otherFeeRows" ->
             {[qty |-> q] : q \in FeeQtyValues}
               \cup {[unitPrice |-> u] : u \in FeePriceValues}

\* product names typed into the name field
NameValues == {"Custom T-Shirt", "Mug"}

----------------------------------------------------------------------------
(* The application *)

\* the current invocation is kept for comparison with later ones
Remember ==
    /\ ~snap.taken
    /\ EditedFields(productInputs) = {}
    /\ productInputs.laborCostRows # <<>>
    /\ TotalRows(productInputs) = 1
    /\ materials = <<>>
    /\ snap' = [taken |-> TRUE, productInputs |-> productInputs,
                materials |-> materials, calculatedPricing |-> calculatedPricing,
                between |-> FALSE]
    /\ UNCHANGED <<materials, productInputs, calculatedPricing, localStorage>>
    /\ UNCHANGED appFrame

Next ==
    \/ \E data \in NewMaterialData :
          /\ IsDuplicate(materials, data.name)
                \/ InScope(productInputs, Append(materials, data))
          /\ onAddMaterial(data)
    \/ \E i \in 1..Len(materials) : onDeleteMaterial(materials[i].id)
    \/ \E value \in NameValues :
          /\ InScope([productInputs EXCEPT !.productName = value], materials)
          /\ onProductTextChange("productName", value)
    \/ \E name \in NumberFields : \E value \in NumberValues(name) :
          /\ InScope([productInputs EXCEPT ![name] = value], materials)
          /\ onProductNumberChange(name, value)
    \/ \E value \in Modes : onProductModeChange(value)
    \/ \E rowType \in RowTypes :
          addRow(rowType) /\ RowScope(productInputs', materials)
    \/ \E rowType \in RowTypes : \E i \in 1..Len(productInputs[rowType]) :
          \E updatedValue \in RowPatches(rowType) :
             updateRow(rowType, i, updatedValue) /\ RowScope(productInputs', materials)
    \/ \E rowType \in RowTypes : \E i \in 1..Len(productInputs[rowType]) :
          removeRow(rowType, i)

Spec == Init /\ [][Next]_vars

\* invocations are compared on products of at most one row over an empty
\* catalog, under the default scalar fields
InitIdem ==
    /\ Init
    /\ materials = <<>>
    /\ EditedFields(productInputs) = {}
    /\ TotalRows(productInputs) <= 1

NextIdem ==
    \/ Remember
    \/ \E data \in NewMaterialData :
          /\ materials = <<>>
          /\ InScope(productInputs, Append(materials, data))
          /\ onAddMaterial(data)
    \/ \E i \in 1..Len(materials) : onDeleteMaterial(materials[i].id)
    \/ \E value \in DiscountValues :
          /\ InScope([productInputs EXCEPT !.discount = value], materials)
          /\ onProductNumberChange("discount", value)
    \/ \E value \in Modes : onProductModeChange(value)
    \/ \E rowType \in RowTypes : TotalRows(productInputs) = 0 /\ addRow(rowType)
    \/ \E rowType \in RowTypes : \E i \in 1..Len(productInputs[rowType]) :
          removeRow(rowType, i)

SpecIdem == InitIdem /\ [][NextIdem]_vars

----------------------------------------------------------------------------
(* The labor table under rounding arithmetic *)

\* significant bits of a number
FloatBits == 3

\* rows of the labor table
MaxFloatRows == 3

FloatHours == {One, Int2Num(2), Int2Num(4), Int2Num(8)}

\* a product of labor only, at an hourly rate of 1
InitFloat ==
    /\ precision = FloatBits
    /\ storageFault = "none"
    /\ today = 0
    /\ materials = <<>>
    /\ \E rows \in SeqUpTo({LaborCostRow(h) : h \in FloatHours}, MaxFloatRows) :
          productInputs =
              [defaultProductInputs EXCEPT
                 !.hourlyLaborRate = One, !.materialCostRows = <<>>,
                 !.packagingCostRows = <<>>, !.otherFeeRows = <<>>,
                 !.laborCostRows = rows]
    /\ calculatedPricing = calculate(productInputs, materials)
    /\ snap = NoSnap
    /\ localStorage = MountedStorage(EmptyStore, productInputs, materials)
    /\ advisor = MountedAdvisor(EmptyStore, productInputs, materials)

NextFloat ==
    \/ /\ Len(productInputs.laborCostRows) < MaxFloatRows
       /\ addRow("laborCostRows")
    \/ \E i \in 1..Len(productInputs.laborCostRows) : \E h \in FloatHours :
          updateRow("laborCostRows", i, [hours |-> h])
    \/ \E i \in 1..Len(productInputs.laborCostRows) : removeRow("laborCostRows", i)
    \/ \E value \in Modes : onProductModeChange(value)

SpecFloat == InitFloat /\ [][NextFloat]_vars

----------------------------------------------------------------------------
(* PricingAdvisor: a request for advice *)

\* as buildPresyoPrompt, but quoting the price before the discount as the
\* final sales price
buildPresyoPrompt_beforeDiscount(inputs, results) ==
    [productName |-> inputs.productName,
     totalMaterialCost |-> results.totalMaterialCost,
     totalPackagingCost |-> results.totalPackagingCost,
     totalLaborCost |-> results.totalLaborCost,
     hourlyLaborRate |-> inputs.hourlyLaborRate,
     totalOtherFeesCost |-> results.totalOtherFeesCost,
     totalBaseCost |-> results.totalBaseCost,
     strategy |-> IF inputs.calculationMode = "margin"
                  THEN <<"Target Margin", inputs.targetMargin>>
                  ELSE <<"Target Price", inputs.targetPrice>>,
     finalPrice |-> results.finalPrice,
     discount |-> inputs.discount,
     discountedPrice |-> results.finalPrice,
     profit |-> results.profit,
     requiredMargin |-> results.requiredMargin]

\* buildPresyoPrompt(inputs, results): the values the prompt quotes
buildPresyoPrompt(inputs, results) ==
    [productName |-> inputs.productName,
     totalMaterialCost |-> results.totalMaterialCost,
     totalPackagingCost |-> results.totalPackagingCost,
     totalLaborCost |-> results.totalLaborCost,
     hourlyLaborRate |-> inputs.hourlyLaborRate,
     totalOtherFeesCost |-> results.totalOtherFeesCost,
     totalBaseCost |-> results.totalBaseCost,
     strategy |-> IF inputs.calculationMode = "margin"
                  THEN <<"Target Margin", inputs.targetMargin>>
                  ELSE <<"Target Price", inputs.targetPrice>>,
     finalPrice |-> results.finalPrice,
     discount |-> inputs.discount,
     discountedPrice |-> results.discountedPrice,
     profit |-> results.profit,
     requiredMargin |-> results.requiredMargin]

\* as useEffect_cooldown, but without the cleanup of the previous run
useEffect_cooldown_noCleanup(intervals, cooldown) ==
    IF cooldown > 0 THEN intervals + 1 ELSE intervals

\* useEffect(() => { ... }, [cooldown]): the timers left running once the
\* cleanup of the previous run has cleared the timer of the ref and the effect
\* has run on the new value
useEffect_cooldown(intervals, cooldown) ==
    LET cleared == IF intervals > 0 THEN intervals - 1 ELSE 0
    IN  IF cooldown > 0 THEN cleared + 1 ELSE cleared

\* as isButtonDisabled, but without regard to a request that is loading
isButtonDisabled_notLoading ==
    advisor.cooldown > 0 \/ advisor.remainingRequests <= 0

isButtonDisabled ==
    advisor.isLoading \/ advisor.cooldown > 0 \/ advisor.remainingRequests <= 0

\* as handleGetAdvice, but leaving the error of the previous request
handleGetAdvice_keepsError ==
    /\ Mounted
    /\ ~isButtonDisabled
    /\ advisor' =
          IF advisor.remainingRequests <= 0
          THEN [advisor EXCEPT !.error = "daily limit"]
          ELSE [advisor EXCEPT
                  !.isLoading = TRUE, !.advice = "",
                  !.requests =
                      Append(@, [prompt |-> buildPresyoPrompt(productInputs,
                                                              calculatedPricing),
                                 remainingRequests |-> advisor.remainingRequests])]
    /\ UNCHANGED <<materials, productInputs, calculatedPricing, snap, precision,
                   localStorage, storageFault, today>>

\* the click on the button, up to the await: getPricingAdvice has built its
\* prompt from the inputs and results of this render and sent it
handleGetAdvice ==
    /\ Mounted
    /\ ~isButtonDisabled
    /\ advisor' =
          IF advisor.remainingRequests <= 0
          THEN [advisor EXCEPT !.error = "daily limit"]
          ELSE [advisor EXCEPT
                  !.isLoading = TRUE, !.error = "", !.advice = "",
                  !.requests =
                      Append(@, [prompt |-> buildPresyoPrompt(productInputs,
                                                              calculatedPricing),
                                 remainingRequests |-> advisor.remainingRequests])]
    /\ UNCHANGED <<materials, productInputs, calculatedPricing, snap, precision,
                   localStorage, storageFault, today>>

\* the texts the service answers with
AdviceTexts == {"Presyo Tip #1"}

\* the request settles with an answer: handleGetAdvice after the await
getPricingAdvice_fulfilled(generatedAdvice) ==
    /\ Mounted
    /\ advisor.requests # <<>>
    /\ LET newCount == Head(advisor.requests).remainingRequests - 1
       IN  /\ advisor' = [advisor EXCEPT
                            !.advice = generatedAdvice,
                            !.remainingRequests = newCount,
                            !.cooldown = COOLDOWN_SECONDS,
                            !.intervals =
                                IF advisor.cooldown = COOLDOWN_SECONDS THEN @
                                ELSE useEffect_cooldown(@, COOLDOWN_SECONDS),
                            !.isLoading = FALSE,
                            !.requests = Tail(@)]
           /\ localStorage' =
                 setItem(setItem(localStorage, "requestCount", Item(newCount)),
                         "lastRequestDate", Item(today))
    /\ UNCHANGED <<materials, productInputs, calculatedPricing, snap, precision,
                   storageFault, today>>

\* as getPricingAdvice_rejected, but taking the request off the quota
getPricingAdvice_rejected_counted ==
    /\ Mounted
    /\ advisor.requests # <<>>
    /\ advisor' = [advisor EXCEPT
                     !.error = "Sorry, an error occurred",
                     !.remainingRequests = Head(advisor.requests).remainingRequests - 1,
                     !.isLoading = FALSE,
                     !.requests = Tail(@)]
    /\ UNCHANGED <<materials, productInputs, calculatedPricing, snap, precision,
                   localStorage, storageFault, today>>

\* the request settles with an error: the catch and finally of handleGetAdvice
getPricingAdvice_rejected ==
    /\ Mounted
    /\ advisor.requests # <<>>
    /\ advisor' = [advisor EXCEPT
                     !.error = "Sorry, an error occurred",
                     !.isLoading = FALSE,
                     !.requests = Tail(@)]
    /\ UNCHANGED <<materials, productInputs, calculatedPricing, snap, precision,
                   localStorage, storageFault, today>>

\* a timer of the cooldown effect fires: setCooldown(prev => prev - 1), and
\* the effect runs again on the new value
cooldownTick ==
    /\ Mounted
    /\ advisor.intervals > 0
    /\ advisor' = [advisor EXCEPT
                     !.cooldown = @ - 1,
                     !.intervals = useEffect_cooldown(@, advisor.cooldown - 1)]
    /\ UNCHANGED <<materials, productInputs, calculatedPricing, snap, precision,
                   localStorage, storageFault, today>>

\* days the calendar advances
MaxDays == 1

\* midnight passes: getTodayDateString() returns the next day
DayPasses ==
    /\ today < MaxDays
    /\ today' = today + 1
    /\ UNCHANGED <<materials, productInputs, calculatedPricing, snap, precision,
                   localStorage, storageFault, advisor>>

\* the default application over an empty localStorage
InitAdvice ==
    /\ precision = 0
    /\ storageFault = "none"
    /\ today = 0
    /\ Started(EmptyStore)

NextAdvice ==
    \/ handleGetAdvice
    \/ \E generatedAdvice \in AdviceTexts : getPricingAdvice_fulfilled(generatedAdvice)
    \/ getPricingAdvice_rejected
    \/ cooldownTick
    \/ DayPasses
    \/ Restart
    \/ useEffect_quota
    \/ \E value \in Modes : onProductModeChange(value)

SpecAdvice == InitAdvice /\ [][NextAdvice]_vars

\* the call of the service settles, with an answer or with an error
Settles ==
    \/ \E generatedAdvice \in AdviceTexts : getPricingAdvice_fulfilled(generatedAdvice)
    \/ getPricingAdvice_rejected

\* the timers of the page fire and the calls of the service settle
SpecAdviceFair == SpecAdvice /\ WF_vars(cooldownTick) /\ WF_vars(Settles)

----------------------------------------------------------------------------
(* The application over a localStorage it does not control *)

StorageFaults == {"none", "quota", "denied"}

\* a stored configuration: one material row, price mode
storedInputs ==
    ProductInputs(RowLists(<< ProductMaterialRow("1", Num(1, 2)) >>, <<>>, <<>>, <<>>),
                  Int2Num(40), "price", Int2Num(60), Int2Num(1000), Int2Num(10))

\* what the browser can hold under the key of the catalog
StoredMaterialItems ==
    {NoItem, NotJSON, Item(<< defaultMaterials[1] >>),
     Item(<< defaultMaterials[1], defaultMaterials[2] >>)}

\* what the browser can hold under the key of the configuration: nothing, a
\* text that is not JSON, a configuration, one whose targetPrice reads
\* 1e999, and one written without the otherFeeRows property
StoredInputItems ==
    {NoItem, NotJSON, Item(storedInputs),
     Item([storedInputs EXCEPT !.targetPrice = Infinity]),
     Item([f \in DOMAIN storedInputs \ {"otherFeeRows"} |-> storedInputs[f]])}

InitStorage ==
    /\ precision = 0
    /\ storageFault \in StorageFaults
    /\ today = 0
    /\ \E m \in StoredMaterialItems : \E p \in StoredInputItems :
          Started([EmptyStore EXCEPT !.materials = m, !.productInputs = p])

\* localStorage starts or stops failing (quota reached, storage disabled)
StorageFaultChanges(fault) ==
    /\ storageFault' = fault
    /\ UNCHANGED <<materials, productInputs, calculatedPricing, snap, precision,
                   localStorage, advisor, today>>

\* an item is written or removed from outside the application (another tab
\* of the origin, the browser's site data settings)
StorageChanges(key, item) ==
    /\ localStorage' = [localStorage EXCEPT ![key] = item]
    /\ UNCHANGED <<materials, productInputs, calculatedPricing, snap, precision,
                   storageFault, advisor, today>>

NextStorage ==
    \/ Restart
    \/ useEffect_quota
    \/ \E fault \in StorageFaults : StorageFaultChanges(fault)
    \/ \E item \in StoredMaterialItems : StorageChanges("materials", item)
    \/ \E item \in StoredInputItems : StorageChanges("productInputs", item)
    \/ \E value \in Modes : onProductModeChange(value)
    \/ \E i \in 1..Len(materials) :
          Len(materials) <= MaxMaterials /\ onDeleteMaterial(materials[i].id)

SpecStorage == InitStorage /\ [][NextStorage]_vars

----------------------------------------------------------------------------
(* The forms: what the inputs of the page hand to the handlers *)

\* texts an input of type number holds: the empty text (which is also what
\* the browser reports for an entry it cannot read), a negative number, a
\* fraction, zero, whole numbers
NumberTexts == {"", "-5", "2.5"}

\* parseFloat(text) on the texts in use
parseFloat(text) ==
    CASE text = "" -> NaN
      [] text = "-5" -> Int2Num(-5)
      [] text = "2.5" -> Num(5, 2)
      [] text = "0" -> Zero
      [] text = "50" -> Int2Num(50)
      [] text = "250" -> Int2Num(250)

\* parseInt(text, 10) on the texts in use
parseInt(text) ==
    CASE text = "" -> NaN
      [] text = "-5" -> Int2Num(-5)
      [] text = "2.5" -> Int2Num(2)
      [] text = "0" -> Zero
      [] text = "50" -> Int2Num(50)
      [] text = "250" -> Int2Num(250)

\* Math.max(a, b)
Math_max(a, b) ==
    IF IsNaN(a) \/ IsNaN(b) THEN NaN ELSE IF Lt(a, b) THEN b ELSE a

\* as handleTopLevelInputChange, but handing over the number as parsed
handleTopLevelInputChange_unclamped(name, text) ==
    onProductNumberChange(name, OrElse(parseFloat(text), Zero))

\* ProductPricing: the inputs of the rate, the margin, the price, the discount
handleTopLevelInputChange(name, text) ==
    onProductNumberChange(name, Math_max(Zero, OrElse(parseFloat(text), Zero)))

\* MaterialCostTable, PackagingCostTable: the select of a row
materialSelect_onChange(rowType, index, value) ==
    updateRow(rowType, index, [materialId |-> value])

\* MaterialCostTable, PackagingCostTable: the quantity of a row
materialQty_onChange(rowType, index, text) ==
    updateRow(rowType, index,
              [qty |-> Math_max(Zero, OrElse(parseFloat(text), Zero))])

\* LaborCostTable: the hours of a row
laborHours_onChange(index, text) ==
    updateRow("laborCostRows", index,
              [hours |-> Math_max(Zero, OrElse(parseFloat(text), Zero))])

\* OtherFeeTable: the quantity of a row
otherFeeQty_onChange(index, text) ==
    updateRow("otherFeeRows", index,
              [qty |-> Math_max(Zero, OrElse(parseInt(text), Zero))])

\* OtherFeeTable: the unit price of a row
otherFeeUnitPrice_onChange(index, text) ==
    updateRow("otherFeeRows", index,
              [unitPrice |-> Math_max(Zero, OrElse(parseFloat(text), Zero))])

\* the options of the select of a row: the empty option and the catalog
SelectOptions == {""} \cup {materials[i].id : i \in 1..Len(materials)}

\* what the form of the material library holds when it is submitted
MaterialForms ==
    { [name |-> "Canvas", totalCost |-> "250", qty |-> "50"],
      [name |-> "Canvas", totalCost |-> "-5", qty |-> "50"],
      [name |-> "Canvas", totalCost |-> "250", qty |-> "0"],
      [name |-> "", totalCost |-> "250", qty |-> "50"] }

\* Materials: the submission of the form
handleAdd(formState) ==
    LET totalCostValue == parseFloat(formState.totalCost)
        qtyValue == parseInt(formState.qty)
    IN  IF \/ formState.name = "" \/ formState.totalCost = "" \/ formState.qty = ""
           \/ IsNaN(totalCostValue) \/ Lt(totalCostValue, Zero)
           \/ IsNaN(qtyValue) \/ ~Gt(qtyValue, Zero)
        THEN Mounted /\ UNCHANGED vars
        ELSE onAddMaterial([name |-> formState.name,
                            totalCost |-> totalCostValue, qty |-> qtyValue])

\* edits (cells changed, rows added or removed) that separate a configuration
\* and a catalog from the default ones
MaxEdits == 2

\* f[1] + ... + f[n]
RECURSIVE SumTo(_, _)
SumTo(f, n) == IF n = 0 THEN 0 ELSE f[n] + SumTo(f, n - 1)

\* the fields in which two records differ
CellEdits(r, s) == Cardinality({f \in DOMAIN r : r[f] # s[f]})

\* a list against the default list, position by position: the cells that
\* differ, the rows that are gone and the rows that are new
ListEdits(list, default) ==
    LET n == IF Len(list) < Len(default) THEN Len(list) ELSE Len(default)
    IN  SumTo([i \in 1..n |-> CellEdits(list[i], default[i])], n)
          + (Len(default) - n) + (Len(list) - n)

Edits(pi, ms) ==
    Cardinality(EditedFields(pi))
      + ListEdits(pi.materialCostRows, defaultProductInputs.materialCostRows)
      + ListEdits(pi.packagingCostRows, defaultProductInputs.packagingCostRows)
      + ListEdits(pi.laborCostRows, defaultProductInputs.laborCostRows)
      + ListEdits(pi.otherFeeRows, defaultProductInputs.otherFeeRows)
      + ListEdits(ms, defaultMaterials)

\* the configurations the forms are used on: fewer than MaxEdits edits away
\* from the default
Editable == Edits(productInputs, materials) < MaxEdits

\* the default application over an empty localStorage
InitForm ==
    /\ precision = 0
    /\ storageFault = "none"
    /\ today = 0
    /\ Started(EmptyStore)

ReferenceRows == {"materialCostRows", "packagingCostRows"}

NextForm ==
    \/ \E name \in NumberFields : \E text \in NumberTexts :
          Editable /\ handleTopLevelInputChange(name, text)
    \/ \E value \in Modes : Editable /\ onProductModeChange(value)
    \/ \E rowType \in RowTypes : Editable /\ addRow(rowType)
    \/ \E rowType \in RowTypes : \E i \in 1..Len(productInputs[rowType]) :
          Editable /\ removeRow(rowType, i)
    \/ \E rowType \in ReferenceRows : \E i \in 1..Len(productInputs[rowType]) :
          \E value \in SelectOptions :
             Editable /\ materialSelect_onChange(rowType, i, value)
    \/ \E rowType \in ReferenceRows : \E i \in 1..Len(productInputs[rowType]) :
          \E text \in NumberTexts :
             Editable /\ materialQty_onChange(rowType, i, text)
    \/ \E i \in 1..Len(productInputs.laborCostRows) : \E text \in NumberTexts :
          Editable /\ laborHours_onChange(i, text)
    \/ \E i \in 1..Len(productInputs.otherFeeRows) : \E text \in NumberTexts :
          Editable /\ otherFeeQty_onChange(i, text)
    \/ \E i \in 1..Len(productInputs.otherFeeRows) : \E text \in NumberTexts :
          Editable /\ otherFeeUnitPrice_onChange(i, text)
    \/ \E formState \in MaterialForms : Editable /\ handleAdd(formState)
    \/ \E i \in 1..Len(materials) :
          Editable /\ onDeleteMaterial(materials[i].id)

SpecForm == InitForm /\ [][NextForm]_vars

----------------------------------------------------------------------------
(* Row handlers that outlive their render *)

\* the row handlers of the render on the screen are kept by their caller;
\* they hold the configuration of that render
useCallback_kept ==
    /\ Mounted
    /\ ~snap.taken
    /\ snap' = [taken |-> TRUE, productInputs |-> productInputs,
                materials |-> materials, calculatedPricing |-> calculatedPricing,
                between |-> FALSE]
    /\ UNCHANGED <<materials, productInputs, calculatedPricing, localStorage>>
    /\ UNCHANGED appFrame

\* the list a kept handler holds
keptRows(rowType) == IF snap.taken THEN snap.productInputs[rowType] ELSE <<>>

\* a kept handler is called
keptAddRow(rowType) == snap.taken /\ addRowOf(snap.productInputs, rowType)

keptUpdateRow(rowType, rowIndex, updatedValue) ==
    snap.taken /\ updateRowOf(snap.productInputs, rowType, rowIndex, updatedValue)

keptRemoveRow(rowType, rowIndex) ==
    snap.taken /\ removeRowOf(snap.productInputs, rowType, rowIndex)

\* the default application: the material and packaging tables and the
\* library are used, and the handlers of the first render are kept and called
\* later
InitKept == InitForm

NextKept ==
    \/ Edits(productInputs, materials) = 0 /\ useCallback_kept
    \/ \E rowType \in ReferenceRows : Editable /\ addRow(rowType)
    \/ \E rowType \in ReferenceRows : \E i \in 1..Len(productInputs[rowType]) :
          Editable /\ removeRow(rowType, i)
    \/ \E rowType \in ReferenceRows : \E i \in 1..Len(productInputs[rowType]) :
          \E value \in SelectOptions :
             Editable /\ materialSelect_onChange(rowType, i, value)
    \/ \E i \in 1..Len(materials) :
          Editable /\ onDeleteMaterial(materials[i].id)
    \/ \E rowType \in ReferenceRows : keptAddRow(rowType)
    \/ \E rowType \in ReferenceRows : \E i \in 1..Len(keptRows(rowType)) :
          keptUpdateRow(rowType, i, [qty |-> Int2Num(3)])
    \/ \E rowType \in ReferenceRows : \E i \in 1..Len(keptRows(rowType)) :
          keptRemoveRow(rowType, i)

SpecKept == InitKept /\ [][NextKept]_vars

----------------------------------------------------------------------------
(* Properties of the pricing engine *)

\* c1 + (c2 + (... + 0)): the sum of a list of numbers
RECURSIVE SumOf(_)
SumOf(costs) ==
    IF costs = <<>> THEN Zero ELSE Add(Head(costs), SumOf(Tail(costs)))

\* no catalog entry has this id (null is the id of no entry)
Unresolved(ms, id) == \A i \in 1..Len(ms) : ms[i].id # id

\* the unit price a reference resolves to: that of the first catalog entry
\* with the id when it is a number other than 0, and 0 otherwise
ResolvedUnitPrice(ms, id) ==
    IF Unresolved(ms, id) THEN Zero
    ELSE LET first == CHOOSE i \in 1..Len(ms) :
                          /\ ms[i].id = id
                          /\ \A j \in 1..(i - 1) : ms[j].id # id
         IN  IF IsNaN(ms[first].unitPrice) THEN Zero ELSE ms[first].unitPrice

\* the list without its i-th element
RemoveAt(rows, i) == [j \in 1..(Len(rows) - 1) |-> IF j < i THEN rows[j] ELSE rows[j + 1]]

NonNegative(x) == IsFinite(x) /\ ~Lt(x, Zero)

\* every row quantity and price of the configuration is a non-negative number
NonNegativeRows(pi, ms) ==
    /\ \A i \in 1..Len(pi.materialCostRows) : NonNegative(pi.materialCostRows[i].qty)
    /\ \A i \in 1..Len(pi.packagingCostRows) : NonNegative(pi.packagingCostRows[i].qty)
    /\ \A i \in 1..Len(pi.laborCostRows) : NonNegative(pi.laborCostRows[i].hours)
    /\ \A i \in 1..Len(pi.otherFeeRows) :
          NonNegative(pi.otherFeeRows[i].qty) /\ NonNegative(pi.otherFeeRows[i].unitPrice)
    /\ NonNegative(pi.hourlyLaborRate)
    /\ \A i \in 1..Len(ms) : NonNegative(ms[i].unitPrice)

\* C1: with non-negative row quantities and prices, totalBaseCost is the sum
\* of the four bucket totals, no term more and no term less.
C1_BaseCostIsSumOfBuckets ==
    NonNegativeRows(productInputs, materials) =>
        calculatedPricing.totalBaseCost =
            SumOf(<< calculatedPricing.totalMaterialCost,
                     calculatedPricing.totalPackagingCost,
                     calculatedPricing.totalLaborCost,
                     calculatedPricing.totalOtherFeesCost >>)

\* the default configuration: all four buckets are positive and sum to 175
C1_Witness ==
    /\ NonNegativeRows(productInputs, materials)
    /\ calculatedPricing.totalMaterialCost = Int2Num(125)
    /\ calculatedPricing.totalPackagingCost = Int2Num(5)
    /\ calculatedPricing.totalLaborCost = Int2Num(30)
    /\ calculatedPricing.totalOtherFeesCost = Int2Num(15)
    /\ calculatedPricing.totalBaseCost = Int2Num(175)

\* C2: each bucket total is the sum, over the rows of its own list only, of
\* the row cost: resolved unit price x qty for material and for packaging
\* rows, hours x the one hourlyLaborRate for labor rows, qty x the row's own
\* unitPrice for other-fee rows; an empty list gives 0.
C2_BucketsSumOwnRows ==
    LET pi == productInputs
        ms == materials
    IN  /\ calculatedPricing.totalMaterialCost =
              SumOf([i \in 1..Len(pi.materialCostRows) |->
                        Mul(ResolvedUnitPrice(ms, pi.materialCostRows[i].materialId),
                            pi.materialCostRows[i].qty)])
        /\ calculatedPricing.totalPackagingCost =
              SumOf([i \in 1..Len(pi.packagingCostRows) |->
                        Mul(ResolvedUnitPrice(ms, pi.packagingCostRows[i].materialId),
                            pi.packagingCostRows[i].qty)])
        /\ calculatedPricing.totalLaborCost =
              SumOf([i \in 1..Len(pi.laborCostRows) |->
                        Mul(pi.laborCostRows[i].hours, pi.hourlyLaborRate)])
        /\ calculatedPricing.totalOtherFeesCost =
              SumOf([i \in 1..Len(pi.otherFeeRows) |->
                        Mul(pi.otherFeeRows[i].qty, pi.otherFeeRows[i].unitPrice)])
        /\ pi.materialCostRows = <<>> => calculatedPricing.totalMaterialCost = Zero
        /\ pi.packagingCostRows = <<>> => calculatedPricing.totalPackagingCost = Zero
        /\ pi.laborCostRows = <<>> => calculatedPricing.totalLaborCost = Zero
        /\ pi.otherFeeRows = <<>> => calculatedPricing.totalOtherFeesCost = Zero

\* two material rows with different costs next to an empty packaging list
C2_Witness ==
    /\ Len(productInputs.materialCostRows) = 2
    /\ productInputs.packagingCostRows = <<>>
    /\ productInputs.materialCostRows[1].materialId = "1"
    /\ productInputs.materialCostRows[2].materialId = "2"
    /\ calculatedPricing.totalMaterialCost = Num(175, 2)
    /\ calculatedPricing.totalPackagingCost = Zero

\* the bucket total of a reference-row list
BucketOf(pricing, rowType) ==
    IF rowType = "materialCostRows" THEN pricing.totalMaterialCost
    ELSE pricing.totalPackagingCost

\* C3: a material or packaging row whose materialId is null or matches no
\* catalog entry contributes exactly 0 to its bucket, whatever its quantity:
\* the bucket total is the total of the list without the row.
C3_UnresolvedRowContributesZero ==
    \A rowType \in {"materialCostRows", "packagingCostRows"} :
        \A i \in 1..Len(productInputs[rowType]) :
            Unresolved(materials, productInputs[rowType][i].materialId) =>
                BucketOf(calculatedPricing, rowType) =
                    BucketOf(computePricing(
                                [productInputs EXCEPT ![rowType] = RemoveAt(@, i)],
                                materials), rowType)

\* C4: in margin mode with targetMargin < 100,
\* finalPrice = totalBaseCost / (1 - targetMargin/100), that is
\* finalPrice x (100 - targetMargin) = totalBaseCost x 100; targetMargin 0
\* gives totalBaseCost and targetMargin 50 gives twice totalBaseCost.
C4_MarginModeFinalPrice ==
    LET pi == productInputs
        r == calculatedPricing
    IN  (pi.calculationMode = "margin" /\ Lt(pi.targetMargin, Hundred)) =>
            /\ r.finalPrice =
                  Div(r.totalBaseCost, Sub(One, Div(pi.targetMargin, Hundred)))
            /\ IsFinite(pi.targetMargin) =>
                  Mul(r.finalPrice, Sub(Hundred, pi.targetMargin))
                      = Mul(r.totalBaseCost, Hundred)
            /\ pi.targetMargin = Zero => r.finalPrice = r.totalBaseCost
            /\ pi.targetMargin = Int2Num(50) =>
                  r.finalPrice = Mul(Int2Num(2), r.totalBaseCost)

\* margin 50 over a base cost of 75 gives 150
C4_Witness ==
    /\ productInputs.calculationMode = "margin"
    /\ productInputs.targetMargin = Int2Num(50)
    /\ calculatedPricing.totalBaseCost = Int2Num(75)
    /\ calculatedPricing.finalPrice = Int2Num(150)

\* C5: in margin mode with targetMargin >= 100, finalPrice is totalBaseCost,
\* so for a non-negative base cost it is neither negative nor infinite.
C5_MarginAtLeast100FallsBack ==
    LET pi == productInputs
        r == calculatedPricing
    IN  (/\ pi.calculationMode = "margin"
         /\ ~IsNaN(pi.targetMargin)
         /\ ~Lt(pi.targetMargin, Hundred)) =>
            /\ r.finalPrice = r.totalBaseCost
            /\ NonNegative(r.totalBaseCost) => NonNegative(r.finalPrice)

\* margins 100 and 150 over a positive base cost
C5_Witness ==
    /\ productInputs.calculationMode = "margin"
    /\ productInputs.targetMargin \in {Hundred, Int2Num(150)}
    /\ calculatedPricing.totalBaseCost = Int2Num(75)
    /\ calculatedPricing.finalPrice = Int2Num(75)

\* C6: in price mode finalPrice is targetPrice; for targetPrice > 0,
\* requiredMargin = ((targetPrice - totalBaseCost) / targetPrice) x 100,
\* negative exactly when totalBaseCost > targetPrice; and no value of
\* targetMargin changes any output.
C6_PriceModeRequiredMargin ==
    LET pi == productInputs
        r == calculatedPricing
    IN  pi.calculationMode = "price" =>
            /\ r.finalPrice = pi.targetPrice
            /\ Gt(pi.targetPrice, Zero) =>
                  /\ r.requiredMargin =
                        Mul(Div(Sub(pi.targetPrice, r.totalBaseCost), pi.targetPrice),
                            Hundred)
                  /\ (IsFinite(pi.targetPrice) /\ IsFinite(r.totalBaseCost)) =>
                        Mul(r.requiredMargin, pi.targetPrice)
                            = Mul(Sub(pi.targetPrice, r.totalBaseCost), Hundred)
                  /\ Lt(r.requiredMargin, Zero) <=> Gt(r.totalBaseCost, pi.targetPrice)
            /\ \A margin \in MarginValues :
                  computePricing([pi EXCEPT !.targetMargin = margin], materials) = r

\* a target price of 50 under a base cost of 75: the margin is -50
C6_Witness ==
    /\ productInputs.calculationMode = "price"
    /\ productInputs.targetPrice = Int2Num(50)
    /\ productInputs.targetMargin # defaultProductInputs.targetMargin
    /\ calculatedPricing.totalBaseCost = Int2Num(75)
    /\ calculatedPricing.finalPrice = Int2Num(50)
    /\ calculatedPricing.requiredMargin = Int2Num(-50)

\* C7: in price mode with targetPrice 0 or negative, requiredMargin is 0
\* for every base cost.
C7_NonPositivePriceGivesZeroMargin ==
    LET pi == productInputs
        r == calculatedPricing
    IN  (/\ pi.calculationMode = "price"
         /\ (pi.targetPrice = Zero \/ Lt(pi.targetPrice, Zero))) =>
            r.requiredMargin = Zero

\* target prices 0 and -80 over a positive base cost
C7_Witness ==
    /\ productInputs.calculationMode = "price"
    /\ productInputs.targetPrice \in {Zero, Int2Num(-80)}
    /\ calculatedPricing.totalBaseCost = Int2Num(75)
    /\ calculatedPricing.requiredMargin = Zero

\* C8: in both modes discountedPrice = finalPrice x (1 - discount/100) for
\* every discount, not clamped: a discount above 100 gives a negative
\* discountedPrice; at discount 0 discountedPrice is finalPrice.
C8_DiscountedPrice ==
    LET pi == productInputs
        r == calculatedPricing
    IN  /\ r.discountedPrice =
              Mul(r.finalPrice, Sub(One, Div(pi.discount, Hundred)))
        /\ (IsFinite(pi.discount) /\ IsFinite(r.finalPrice)) =>
              Mul(r.discountedPrice, Hundred)
                  = Mul(r.finalPrice, Sub(Hundred, pi.discount))
        /\ pi.discount = Zero => r.discountedPrice = r.finalPrice
        /\ (Gt(pi.discount, Hundred) /\ Gt(r.finalPrice, Zero)) =>
              Lt(r.discountedPrice, Zero)

\* a discount of 150 on a price of 50 gives -25
C8_Witness ==
    /\ productInputs.discount = Int2Num(150)
    /\ calculatedPricing.finalPrice = Int2Num(50)
    /\ calculatedPricing.discountedPrice = Int2Num(-25)

\* C9: in both modes profit = discountedPrice - totalBaseCost; below the
\* base cost the profit is the negative difference, not 0.
C9_ProfitIsDifference ==
    LET r == calculatedPricing
    IN  /\ r.profit = Sub(r.discountedPrice, r.totalBaseCost)
        /\ Lt(r.discountedPrice, r.totalBaseCost) => Lt(r.profit, Zero)

\* a discounted price of 45 under a base cost of 75: the profit is -30
C9_Witness ==
    /\ calculatedPricing.discountedPrice = Int2Num(45)
    /\ calculatedPricing.totalBaseCost = Int2Num(75)
    /\ calculatedPricing.profit = Int2Num(-30)

\* C10: an invocation with the inputs of an earlier invocation returns the
\* earlier values in all nine fields, whatever was invoked in between.
C10_SameInputsSameOutput ==
    (/\ snap.taken
     /\ snap.productInputs = productInputs
     /\ snap.materials = materials) =>
        calculatedPricing = snap.calculatedPricing

\* the inputs of the earlier invocation are back after other invocations
C10_Witness ==
    /\ snap.taken
    /\ snap.between
    /\ snap.productInputs = productInputs
    /\ snap.materials = materials
    /\ calculatedPricing = snap.calculatedPricing
    /\ calculatedPricing.totalBaseCost # Zero

\* the nine fields of CalculatedPricing
PricingFields ==
    {"totalMaterialCost", "totalPackagingCost", "totalLaborCost",
     "totalOtherFeesCost", "totalBaseCost", "finalPrice", "requiredMargin",
     "discountedPrice", "profit"}

\* x when it is a finite number, 0 otherwise
FiniteOrZero(x) == IF IsFinite(x) THEN x ELSE Zero

\* the configuration with every numeric field that is not finite replaced by 0
FiniteInputs(pi) ==
    [pi EXCEPT
       !.hourlyLaborRate = FiniteOrZero(@),
       !.targetMargin = FiniteOrZero(@),
       !.targetPrice = FiniteOrZero(@),
       !.discount = FiniteOrZero(@),
       !.materialCostRows = [i \in 1..Len(@) |-> [@[i] EXCEPT !.qty = FiniteOrZero(@)]],
       !.packagingCostRows = [i \in 1..Len(@) |-> [@[i] EXCEPT !.qty = FiniteOrZero(@)]],
       !.laborCostRows = [i \in 1..Len(@) |-> [@[i] EXCEPT !.hours = FiniteOrZero(@)]],
       !.otherFeeRows = [i \in 1..Len(@) |->
                            [@[i] EXCEPT !.qty = FiniteOrZero(@),
                                         !.unitPrice = FiniteOrZero(@)]]]

\* the catalog with every unitPrice that is not finite replaced by 0
FiniteCatalog(ms) ==
    [i \in 1..Len(ms) |-> [ms[i] EXCEPT !.unitPrice = FiniteOrZero(@)]]

\* C12: every numeric input that is not a finite number is read as 0: the
\* output is that of the inputs with 0 in its place, and no output field is
\* NaN or infinite.
C12_NonFiniteInputsReadAsZero ==
    /\ calculatedPricing =
          computePricing(FiniteInputs(productInputs), FiniteCatalog(materials))
    /\ \A f \in PricingFields : IsFinite(calculatedPricing[f])

----------------------------------------------------------------------------
(* Order of the rows *)

\* the permutations of 1..n
RowOrders(n) ==
    {f \in [1..n -> 1..n] : \A i, j \in 1..n : f[i] = f[j] => i = j}

Permuted(rows, f) == [i \in 1..Len(rows) |-> rows[f[i]]]

\* the cost the engine adds for a row of a list
RowCost(pi, ms, rowType, row) ==
    CASE rowType \in {"materialCostRows", "packagingCostRows"} ->
             materialRowCost(ms, row)
      [] rowType = "laborCostRows" -> laborRowCost(pi, row)
      [] rowType = "otherFeeRows" -> otherFeeRowCost(row)

\* adding the costs to sum from left to right, no sum is rounded
RECURSIVE SumsAreExact(_, _)
SumsAreExact(costs, sum) ==
    \/ costs = <<>>
    \/ /\ Round(Add(sum, Head(costs)), precision) = Add(sum, Head(costs))
       /\ SumsAreExact(Tail(costs), Add(sum, Head(costs)))

ExactList(pi, ms, rowType, rows) ==
    SumsAreExact([i \in 1..Len(rows) |->
                     Round(RowCost(pi, ms, rowType, rows[i]), precision)], Zero)

----------------------------------------------------------------------------
(* Storage *)

\* C13 as stated: the engine returns a record of the nine results, whatever
\* the catalog and the configuration the application holds, also those it
\* restored from storage
C13_EngineIsTotal ==
    /\ calculatedPricing # TypeError
    /\ DOMAIN calculatedPricing = PricingFields

\* what the saving effects have written is what localStorage holds
Saved ==
    /\ Mounted
    /\ localStorage.materials = JSON_stringify("materials", materials)
    /\ localStorage.productInputs = JSON_stringify("productInputs", productInputs)

\* the state a handler has changed
Memory == <<materials, productInputs, calculatedPricing>>

\* C18: a start finds the default catalog (configuration) when localStorage
\* cannot be read, holds nothing under the key or holds a text that is not
\* JSON; while writing fails, a handler changes the state as it does
\* otherwise, the pricing is the one of the new state, the application stays
\* mounted and the stored items are left as they were
C18_StorageFailuresStayOutside ==
    [][/\ Restart =>
            /\ (storageFault = "denied" \/ localStorage.materials.kind # "json")
                  => materials' = defaultMaterials
            /\ (storageFault = "denied" \/ localStorage.productInputs.kind # "json")
                  => productInputs' = defaultProductInputs
       /\ (storageFault # "none" /\ Mounted /\ ~Restart /\ Memory' # Memory) =>
            /\ calculatedPricing' = computePricing(productInputs', materials')
            /\ Mounted'
            /\ localStorage' = localStorage
            /\ \/ \E value \in Modes :
                     /\ productInputs' = [productInputs EXCEPT !.calculationMode = value]
                     /\ materials' = materials
               \/ \E i \in 1..Len(materials) :
                     /\ materials' = SelectSeq(materials,
                                               LAMBDA m : m.id # materials[i].id)
                     /\ Len(productInputs'.materialCostRows)
                           <= Len(productInputs.materialCostRows)]_vars

\* the application has started with the defaults over a localStorage it can
\* neither read a catalog or a configuration from nor write to, and the mode
\* has been changed since
C18_Witness ==
    /\ storageFault = "quota"
    /\ localStorage.materials = NoItem
    /\ localStorage.productInputs = NotJSON
    /\ materials = defaultMaterials
    /\ productInputs = [defaultProductInputs EXCEPT !.calculationMode = "price"]
    /\ calculatedPricing = computePricing(productInputs, materials)

\* C19 as stated: a restart over what the saving effects have written
\* restores the catalog, the configuration and the pricing
C19_RestartRestoresState ==
    [][(Restart /\ storageFault = "none" /\ Saved) =>
           /\ materials' = materials
           /\ productInputs' = productInputs
           /\ calculatedPricing' = calculatedPricing]_vars

----------------------------------------------------------------------------
(* The catalog and the configuration *)

\* C14: the pricing the application exposes is the engine's result for the
\* catalog and the configuration it holds
C14_PricingIsNeverStale ==
    calculatedPricing = computePricing(productInputs, materials)

\* a labor row has been added to an empty product and a material to an
\* empty catalog
C14_Witness ==
    /\ productInputs.laborCostRows = << LaborCostRow(One) >>
    /\ Len(materials) = 1
    /\ materials[1].name = "Brand Tag"
    /\ calculatedPricing.totalLaborCost = Int2Num(40)

\* the rows of a list that do not refer to the material id, in order
RECURSIVE RowsNotOf(_, _)
RowsNotOf(rows, id) ==
    IF rows = <<>> THEN <<>>
    ELSE IF Head(rows).materialId = id THEN RowsNotOf(Tail(rows), id)
    ELSE <<Head(rows)>> \o RowsNotOf(Tail(rows), id)

\* the entries of a catalog whose id is not id, in order
RECURSIVE EntriesNotOf(_, _)
EntriesNotOf(ms, id) ==
    IF ms = <<>> THEN <<>>
    ELSE IF Head(ms).id = id THEN EntriesNotOf(Tail(ms), id)
    ELSE <<Head(ms)>> \o EntriesNotOf(Tail(ms), id)

\* C15: onDeleteMaterial(id) leaves the other catalog entries and the rows
\* that do not refer to id, in order, and every other field as it was; the
\* pricing and the two stored items are those of the catalog and the
\* configuration after the removal
C15_DeleteCascades ==
    [][\A i \in 1..Len(materials) :
          onDeleteMaterial(materials[i].id) =>
             LET id == materials[i].id
             IN  /\ materials' = EntriesNotOf(materials, id)
                 /\ productInputs' =
                       [productInputs EXCEPT
                          !.materialCostRows = RowsNotOf(@, id),
                          !.packagingCostRows = RowsNotOf(@, id)]
                 /\ calculatedPricing' = computePricing(productInputs', materials')
                 /\ localStorage'.materials = JSON_stringify("materials", materials')
                 /\ localStorage'.productInputs =
                       JSON_stringify("productInputs", productInputs')]_vars

\* the default catalog and product after the deletion of material 1
C15_Witness ==
    /\ materials = SubSeq(defaultMaterials, 2, 5)
    /\ productInputs =
          [defaultProductInputs EXCEPT
             !.materialCostRows = << ProductMaterialRow("2", Int2Num(2)) >>]
    /\ calculatedPricing.totalMaterialCost = Int2Num(50)

\* names that differ in the case of their letters only
CaseVariants ==
    { {"Cotton Fabric", "cotton fabric"}, {"Printing Ink", "printing ink"},
      {"Brand Tag", "brand tag"} }

EqualIgnoringCase(a, b) == a = b \/ \E c \in CaseVariants : {a, b} \subseteq c

UniqueNames(ms) ==
    \A i, j \in 1..Len(ms) :
       i # j => ~EqualIgnoringCase(ms[i].name, ms[j].name)

\* C16: onAddMaterial leaves the catalog as it is when an entry has the
\* submitted name up to case; the names of the default catalog differ up to
\* case, and no step makes two names equal up to case
C16_NamesUniqueIgnoringCase ==
    /\ UniqueNames(defaultMaterials)
    /\ [][/\ \A data \in NewMaterialData :
                ((/\ onAddMaterial(data)
                  /\ \E i \in 1..Len(materials) :
                        EqualIgnoringCase(materials[i].name, data.name))
                 => materials' = materials)
           /\ (UniqueNames(materials) => UniqueNames(materials'))]_vars

\* a catalog that holds Cotton Fabric and a material added to it
C16_Witness ==
    /\ Len(materials) = 2
    /\ materials[1] = defaultMaterials[1]
    /\ materials[2].name = "Brand Tag"
    /\ \E data \in NewMaterialData :
          EqualIgnoringCase(materials[1].name, data.name) /\ materials[1].name # data.name

----------------------------------------------------------------------------
(* Advice *)

\* C20: a step of the advisor (a click, a settled request, a tick of the
\* cooldown, the quota effect) leaves the catalog, the configuration and the
\* pricing as they are; the prompt of a request quotes the configuration and
\* the pricing of the moment of the click, and stays as sent while the
\* request is in flight
C20_AdviceDoesNotFeedBack ==
    [][/\ (advisor' # advisor /\ ~Restart) =>
            UNCHANGED <<materials, productInputs, calculatedPricing>>
       /\ (~Restart /\ Len(advisor'.requests) > Len(advisor.requests)) =>
            LET prompt == advisor'.requests[Len(advisor'.requests)].prompt
            IN  /\ prompt.productName = productInputs.productName
                /\ prompt.hourlyLaborRate = productInputs.hourlyLaborRate
                /\ prompt.discount = productInputs.discount
                /\ prompt.strategy[2] =
                      IF productInputs.calculationMode = "margin"
                      THEN productInputs.targetMargin
                      ELSE productInputs.targetPrice
                /\ \A f \in PricingFields : prompt[f] = calculatedPricing[f]
       /\ (~Restart /\ Len(advisor'.requests) >= Len(advisor.requests)) =>
            \A i \in 1..Len(advisor.requests) :
               advisor'.requests[i] = advisor.requests[i]]_vars

\* a request is in flight and the mode has been changed since the click
C20_Witness ==
    /\ advisor.isLoading
    /\ advisor.requests # <<>>
    /\ advisor.requests[1].prompt.finalPrice # calculatedPricing.finalPrice
    /\ advisor.requests[1].prompt.strategy[1] = "Target Margin"
    /\ productInputs.calculationMode = "price"

----------------------------------------------------------------------------
(* Properties of the forms *)

\* x >= 0
AtLeastZero(x) == ~IsNaN(x) /\ ~Lt(x, Zero)

BucketTotals ==
    {"totalMaterialCost", "totalPackagingCost", "totalLaborCost",
     "totalOtherFeesCost"}

\* texts that are negative or that parseFloat cannot read
BadTexts == {"", "-5"}

\* every number of the configuration is finite and at least 0
NonNegativeInputs(pi) ==
    /\ \A name \in NumberFields : NonNegative(pi[name])
    /\ \A rowType \in ReferenceRows : \A i \in 1..Len(pi[rowType]) :
          NonNegative(pi[rowType][i].qty)
    /\ \A i \in 1..Len(pi.laborCostRows) : NonNegative(pi.laborCostRows[i].hours)
    /\ \A i \in 1..Len(pi.otherFeeRows) :
          /\ NonNegative(pi.otherFeeRows[i].qty)
          /\ NonNegative(pi.otherFeeRows[i].unitPrice)

\* an input that is handed a negative or unreadable text stores 0
BadEntryStoredAsZero ==
    \A text \in BadTexts :
       /\ \A name \in NumberFields :
             handleTopLevelInputChange(name, text) => productInputs'[name] = Zero
       /\ \A rowType \in ReferenceRows : \A i \in 1..Len(productInputs[rowType]) :
             materialQty_onChange(rowType, i, text)
                => productInputs'[rowType][i].qty = Zero
       /\ \A i \in 1..Len(productInputs.laborCostRows) :
             laborHours_onChange(i, text)
                => productInputs'.laborCostRows[i].hours = Zero
       /\ \A i \in 1..Len(productInputs.otherFeeRows) :
             /\ otherFeeQty_onChange(i, text)
                   => productInputs'.otherFeeRows[i].qty = Zero
             /\ otherFeeUnitPrice_onChange(i, text)
                   => productInputs'.otherFeeRows[i].unitPrice = Zero

\* C21: from the default configuration, whatever is entered through the
\* forms, the rate, the margin, the price, the discount, every row quantity,
\* every hours and every fee unit price are finite and at least 0, a negative
\* or unreadable entry being stored as 0; the four bucket totals and
\* totalBaseCost are at least 0.
C21_FormsKeepNumbersNonNegative ==
    /\ [](/\ NonNegativeInputs(productInputs)
          /\ \A total \in BucketTotals \cup {"totalBaseCost"} :
                AtLeastZero(calculatedPricing[total]))
    /\ [][BadEntryStoredAsZero]_vars

\* negative or unreadable entries have been made in the rate and in the hours
\* of a labor row, and both hold 0
C21_Witness ==
    /\ defaultProductInputs.hourlyLaborRate # Zero
    /\ productInputs.hourlyLaborRate = Zero
    /\ \E i \in 1..Len(productInputs.laborCostRows) :
          productInputs.laborCostRows[i].hours = Zero
    /\ calculatedPricing.totalLaborCost = Zero

\* C22: from the default state, after any sequence of add-row,
\* select-material (the empty option included), edit-quantity, remove-row,
\* add-material and delete-material, every material row and packaging row
\* refers to null or to the id of a material of the catalog.
C22_RowsReferToCatalogOrNull ==
    \A rowType \in ReferenceRows : \A i \in 1..Len(productInputs[rowType]) :
       \/ productInputs[rowType][i].materialId = NULL
       \/ \E j \in 1..Len(materials) :
             materials[j].id = productInputs[rowType][i].materialId

----------------------------------------------------------------------------
(* The documented example *)

\* the catalog holds one material, of id "1" and unit price 150; the product
\* has one material row of 0.5 of it, one labor row of 0.5 hours at a rate of
\* 40, no packaging and no other fee; margin mode, margin 60, discount 10
MarginModeCase ==
    /\ Len(materials) = 1
    /\ materials[1].id = "1"
    /\ materials[1].unitPrice = Int2Num(150)
    /\ productInputs.materialCostRows = << ProductMaterialRow("1", Num(1, 2)) >>
    /\ productInputs.packagingCostRows = <<>>
    /\ productInputs.laborCostRows = << LaborCostRow(Num(1, 2)) >>
    /\ productInputs.otherFeeRows = <<>>
    /\ productInputs.hourlyLaborRate = Int2Num(40)
    /\ productInputs.calculationMode = "margin"
    /\ productInputs.targetMargin = Int2Num(60)
    /\ productInputs.discount = Int2Num(10)

\* C23: on that case the engine returns materialCost 75, laborCost 20,
\* totalBaseCost 95, finalPrice 237.5, requiredMargin 60 (the targetMargin
\* itself), discountedPrice 213.75 and profit 118.75.
C23_MarginModeCase ==
    MarginModeCase =>
       /\ calculatedPricing.totalMaterialCost = Int2Num(75)
       /\ calculatedPricing.totalPackagingCost = Zero
       /\ calculatedPricing.totalLaborCost = Int2Num(20)
       /\ calculatedPricing.totalOtherFeesCost = Zero
       /\ calculatedPricing.totalBaseCost = Int2Num(95)
       /\ calculatedPricing.finalPrice = Num(475, 2)
       /\ calculatedPricing.requiredMargin = productInputs.targetMargin
       /\ calculatedPricing.requiredMargin = Int2Num(60)
       /\ calculatedPricing.discountedPrice = Num(855, 4)
       /\ calculatedPricing.profit = Num(475, 4)

\* the case has been computed
C23_Witness ==
    /\ MarginModeCase
    /\ calculatedPricing = calculate(productInputs, materials)
    /\ calculatedPricing.profit = Num(475, 4)

----------------------------------------------------------------------------
(* Properties of the advisor *)

\* a step that sends a request to the service
Sends == Len(advisor'.requests) > Len(advisor.requests)

\* a step in which a request settles with an answer
Succeeds == \E generatedAdvice \in AdviceTexts : getPricingAdvice_fulfilled(generatedAdvice)

\* a step in which a request settles with an error
Fails == getPricingAdvice_rejected

\* the quota of the page: the count is within 0..DAILY_LIMIT, nothing is
\* outstanding once it is used up, every outstanding request was sent on a
\* positive count, and the count of a day on which a request has succeeded is
\* the one the storage holds
QuotaKept ==
    advisor.ready =>
       /\ advisor.remainingRequests \in 0..DAILY_LIMIT
       /\ advisor.remainingRequests <= 0 => advisor.requests = <<>>
       /\ \A i \in 1..Len(advisor.requests) :
             advisor.requests[i].remainingRequests > 0
       /\ localStorage.lastRequestDate = Item(today)
             => localStorage.requestCount = Item(advisor.remainingRequests)

\* a request is sent on a positive count only; a request on a count of 0 or
\* less sets the error and sends nothing; a success takes one off the count;
\* the count of a mounted page never grows
QuotaSteps ==
    /\ Sends => advisor.remainingRequests > 0
    /\ handleGetAdvice /\ advisor.remainingRequests <= 0
          => advisor'.error = "daily limit" /\ ~Sends
    /\ Succeeds => advisor'.remainingRequests = advisor.remainingRequests - 1
    /\ advisor.ready /\ advisor'.ready
          => advisor'.remainingRequests <= advisor.remainingRequests

C25_OnlySuccessConsumesQuota ==
    [][ /\ Succeeds =>
              /\ advisor'.remainingRequests = advisor.remainingRequests - 1
              /\ localStorage'.requestCount = Item(advisor'.remainingRequests)
              /\ localStorage'.lastRequestDate = Item(today)
              /\ advisor'.cooldown = COOLDOWN_SECONDS
        /\ Fails =>
              /\ advisor'.remainingRequests = advisor.remainingRequests
              /\ localStorage'.requestCount = localStorage.requestCount
              /\ localStorage'.lastRequestDate = localStorage.lastRequestDate
              /\ advisor'.cooldown = advisor.cooldown
              /\ advisor'.error # ""
              /\ ~isButtonDisabled' ]_vars

\* a request has succeeded and a later one has failed: the count is the one
\* stored by the success, no cooldown runs, the button is enabled
C25_Witness ==
    /\ advisor.ready
    /\ advisor.error # ""
    /\ advisor.remainingRequests = DAILY_LIMIT - 1
    /\ localStorage.requestCount = Item(DAILY_LIMIT - 1)
    /\ localStorage.lastRequestDate = Item(today)
    /\ advisor.cooldown = 0
    /\ ~isButtonDisabled

\* C26: the cooldown is 30 after a success and goes down by exactly 1 with
\* every tick; it is never negative; at most one timer counts it down; it
\* reaches 0, and the button is then enabled if remainingRequests > 0 and no
\* request is loading.
C26_CooldownCountsDown ==
    /\ [](/\ advisor.cooldown \in 0..COOLDOWN_SECONDS
          /\ advisor.intervals <= 1
          /\ advisor.ready /\ advisor.cooldown = 0
               /\ advisor.remainingRequests > 0 /\ ~advisor.isLoading
                => ~isButtonDisabled)
    /\ [][ /\ Succeeds => advisor'.cooldown = COOLDOWN_SECONDS
           /\ cooldownTick => advisor'.cooldown = advisor.cooldown - 1 ]_vars
    /\ (advisor.cooldown > 0 ~> advisor.cooldown = 0)

\* the cooldown has run down to its last second on one timer after a success
\* that left requests for the day
C26_Witness ==
    /\ advisor.ready
    /\ advisor.cooldown = 1
    /\ advisor.intervals = 1
    /\ advisor.advice # ""
    /\ advisor.remainingRequests > 0
    /\ isButtonDisabled

\* C27: at most one request is in flight; while isLoading, while cooldown > 0
\* or while remainingRequests <= 0 the button is disabled and no call to the
\* service starts; the request in flight was sent on the count of the moment,
\* so no two requests take their 1 off the same value of remainingRequests.
C27_OneRequestInFlight ==
    /\ [](/\ Len(advisor.requests) <= 1
          /\ advisor.requests # <<>> =>
                /\ advisor.isLoading
                /\ Head(advisor.requests).remainingRequests
                      = advisor.remainingRequests)
    /\ [][ /\ advisor.isLoading \/ advisor.cooldown > 0
                \/ advisor.remainingRequests <= 0
              => isButtonDisabled /\ ~Sends
           /\ Sends /\ advisor'.ready =>
                 Head(advisor'.requests).remainingRequests
                    = advisor.remainingRequests ]_vars

\* a second request of the day is in flight, sent on the count the first one
\* left
C27_Witness ==
    /\ advisor.ready
    /\ Len(advisor.requests) = 1
    /\ advisor.isLoading
    /\ isButtonDisabled
    /\ advisor.remainingRequests = DAILY_LIMIT - 1
    /\ Head(advisor.requests).remainingRequests = DAILY_LIMIT - 1

\* C28: a request that starts sets isLoading and clears advice and error;
\* when the call settles isLoading is false and exactly one of advice and
\* error is non-empty; every request that has started leaves the loading
\* state; advice and error are never both non-empty.
C28_LoadingTerminates ==
    /\ [](~(advisor.advice # "" /\ advisor.error # ""))
    /\ [][ /\ Sends =>
                 /\ advisor'.isLoading
                 /\ advisor'.advice = ""
                 /\ advisor'.error = ""
           /\ Settles =>
                 /\ ~advisor'.isLoading
                 /\ (advisor'.advice # "") # (advisor'.error # "") ]_vars
    /\ (advisor.isLoading ~> ~advisor.isLoading)

\* a request has failed after two that succeeded: the advice of the last
\* success is gone and the error is shown
C28_Witness ==
    /\ advisor.ready
    /\ ~advisor.isLoading
    /\ advisor.requests = <<>>
    /\ advisor.error # ""
    /\ advisor.advice = ""
    /\ advisor.remainingRequests = DAILY_LIMIT - 2

----------------------------------------------------------------------------
(* Properties of the row handlers *)

\* a step of a row handler
RowStep(rowType) ==
    /\ productInputs'[rowType] # productInputs[rowType]
    /\ materials' = materials

\* what addRow, updateRow or removeRow make of a list
RowResults(rows, rowType) ==
    {Append(rows, newRow(rowType))}
      \cup {filterIndex(rows, i) : i \in 1..Len(rows)}
      \cup {[rows EXCEPT ![i] = spread(rows[i], [qty |-> q])] :
               i \in 1..Len(rows),
               q \in {Int2Num(3)} \cup {Math_max(Zero, OrElse(parseFloat(text), Zero)) :
                                          text \in NumberTexts}}
      \cup {[rows EXCEPT ![i] = spread(rows[i], [materialId |-> value])] :
               i \in 1..Len(rows), value \in SelectOptions}

\* the ids that the rows of a list refer to
Referred(rows) == {rows[i].materialId : i \in 1..Len(rows)} \ {NULL, ""}

CatalogIds == {materials[i].id : i \in 1..Len(materials)}

\* C29: addRow, updateRow and removeRow apply to the current row list, so
\* that of two operations issued one after the other both take effect; once
\* onDeleteMaterial(id) has run, no row operation, not even one prepared from
\* the configuration rendered before the deletion, brings back a row that
\* refers to the deleted id.
C29_RowUpdatesApplyToCurrentList ==
    /\ [](\A rowType \in ReferenceRows :
             Referred(productInputs[rowType]) \subseteq CatalogIds)
    /\ [][\A rowType \in ReferenceRows :
             RowStep(rowType) =>
                productInputs'[rowType]
                   \in RowResults(productInputs[rowType], rowType)]_vars

----------------------------------------------------------------------------
(* The margin against the price *)

\* ((finalPrice - totalBaseCost) / finalPrice) x 100
MarginOfPrice(finalPrice, totalBaseCost) ==
    Mul(Div(Sub(finalPrice, totalBaseCost), finalPrice), Hundred)

\* the engine in price mode on the finalPrice that margin mode returned
PriceModeOn(pi, r) ==
    computePricing([pi EXCEPT !.calculationMode = "price",
                              !.targetPrice = r.finalPrice], materials)

\* margin mode on a positive base cost with a margin within [0, 100)
RoundTripCase(pi, r) ==
    /\ pi.calculationMode = "margin"
    /\ IsFinite(r.totalBaseCost) /\ Gt(r.totalBaseCost, Zero)
    /\ ~Lt(pi.targetMargin, Zero) /\ Lt(pi.targetMargin, Hundred)

\* C30: in both modes, whenever finalPrice > 0, requiredMargin is
\* ((finalPrice - totalBaseCost) / finalPrice) x 100; for a positive base cost
\* and a margin within [0, 100), the finalPrice of margin mode taken as
\* targetPrice in price mode gives back requiredMargin = targetMargin.
C30_MarginConsistentWithPrice ==
    LET pi == productInputs
        r == calculatedPricing
    IN  /\ Gt(r.finalPrice, Zero) =>
              r.requiredMargin = MarginOfPrice(r.finalPrice, r.totalBaseCost)
        /\ RoundTripCase(pi, r) => PriceModeOn(pi, r).requiredMargin = pi.targetMargin

\* C30, amended: in price mode, whenever finalPrice > 0, and in margin mode,
\* whenever targetMargin < 100 and finalPrice > 0 over a finite base cost,
\* requiredMargin is ((finalPrice - totalBaseCost) / finalPrice) x 100; in
\* margin mode with targetMargin >= 100 finalPrice is totalBaseCost and
\* requiredMargin is targetMargin itself; for a positive base cost and a
\* margin within [0, 100), the finalPrice of margin mode taken as targetPrice
\* in price mode gives back requiredMargin = targetMargin.
C30_MarginOfReportedPrice ==
    LET pi == productInputs
        r == calculatedPricing
    IN  /\ pi.calculationMode = "price" /\ Gt(r.finalPrice, Zero) =>
              r.requiredMargin = MarginOfPrice(r.finalPrice, r.totalBaseCost)
        /\ (/\ pi.calculationMode = "margin"
            /\ Lt(pi.targetMargin, Hundred)
            /\ IsFinite(r.totalBaseCost)
            /\ Gt(r.finalPrice, Zero)) =>
              r.requiredMargin = MarginOfPrice(r.finalPrice, r.totalBaseCost)
        /\ (/\ pi.calculationMode = "margin"
            /\ ~IsNaN(pi.targetMargin)
            /\ ~Lt(pi.targetMargin, Hundred)) =>
              /\ r.finalPrice = r.totalBaseCost
              /\ r.requiredMargin = pi.targetMargin
        /\ RoundTripCase(pi, r) => PriceModeOn(pi, r).requiredMargin = pi.targetMargin

\* a margin of 150 is reported over a price that is the base cost of 75, and
\* a margin of 50 over a price of 150 that gives 50 back in price mode
C30_Witness ==
    /\ productInputs.calculationMode = "margin"
    /\ calculatedPricing.totalBaseCost = Int2Num(75)
    /\ \/ /\ productInputs.targetMargin = Int2Num(150)
          /\ calculatedPricing.finalPrice = Int2Num(75)
          /\ calculatedPricing.requiredMargin = Int2Num(150)
          /\ MarginOfPrice(calculatedPricing.finalPrice,
                           calculatedPricing.totalBaseCost) = Zero
       \/ /\ productInputs.targetMargin = Int2Num(50)
          /\ calculatedPricing.finalPrice = Int2Num(150)
          /\ PriceModeOn(productInputs, calculatedPricing).requiredMargin
                = Int2Num(50)

====
